---- MODULE Spec2Model ----
(***************************************************************************)
(* Bottom/top fractal strategy: indicator engine, pattern detector and     *)
(* execution simulator of src/底分型微信通知.py (impl "wx") and            *)
(* src/底分型.py (impl "base").                                            *)
(*                                                                         *)
(* Conventions                                                             *)
(*  - a bar series is a sequence of records; the code's 0-based row k is   *)
(*    element k+1 of the sequence, and every operator below takes the      *)
(*    code's 0-based index;                                                *)
(*  - prices and volumes are integers (price ticks); every floating point  *)
(*    comparison of the code is evaluated exactly, over the rationals;     *)
(*  - a score is kept doubled (Score2 = 2 * score) so that the weights     *)
(*    1, 1, 1, 2, 1.5, 1.5 are the integers 2, 2, 2, 4, 3, 3;              *)
(*  - Python strings are given ASCII tags: the labels                      *)
(*    "bullish" (阳线) / "bearish" (阴线), "volume" (放量),                *)
(*    "downtrend" (下降趋势) / "uptrend" (上升趋势), "rsi_low" (RSI低位) / *)
(*    "rsi_high" (RSI高位), "bb_lower" (布林下轨支撑) / "bb_upper"         *)
(*    (布林上轨阻力), "macd_up" (MACD底部反转) / "macd_down" (MACD顶部转向)*)
(*    and the exit reasons "top_pattern" (顶分型), "stop_loss" (止损),     *)
(*    "trailing_stop" (跟踪止损), "max_hold" (持有天数达到), "end_of_data" *)
(*    (回测结束).                                                          *)
(***************************************************************************)
EXTENDS Integers, Sequences, FiniteSets, TLC

VARIABLES
    impl,            \* which source file runs: "wx" or "base"
    task,            \* what the caller does after get_data: "backtest" or "batch"
    bars,            \* the series the market-data provider returns
    use_stop_loss,   \* parameters of backtest_strategy_realtime
    use_trailing_stop,
    hold_days,
    notifier_enabled, \* self.notifier.enabled / self.wechat.enabled
    data,            \* self.data: NoData (None) or the fetched series
    bottom_results,  \* self.bottom_results
    top_results,     \* self.top_results
    pc,              \* position of the caller
    i,               \* loop index of backtest_strategy_realtime
    st,              \* locals of backtest_strategy_realtime
    ev,              \* what the last processed bar logged
    gh,              \* rows at which the latest signals were logged
    result,          \* return value of backtest_strategy_realtime
    mpc,             \* position of run_multi_monitor / run_live_monitor
    now,             \* the clock the monitor read last
    cycle,           \* iterations of "while True" begun
    idx,             \* watch-list position of "for stock in watchlist"
    last_signals,    \* last_signals[code] / last_bottom_date, last_top_date
    outbox,          \* what the notifier was asked to send
    mev,             \* what the monitor's last step did
    watchlist,       \* the monitor's local watchlist (codes) / stock_code
    config,          \* monitoring.watchlist as config.json holds it now
    check_interval,  \* the monitor's check_interval, in minutes
    nf               \* a notifier object, its clock and what its last call did

stratvars == <<task, bars, use_stop_loss, use_trailing_stop, hold_days, data,
               bottom_results, top_results, pc, i, st, ev, gh, result>>
monvars == <<mpc, now, cycle, idx, last_signals, outbox, mev, watchlist, config,
          check_interval, nf>>

vars == <<impl, task, bars, use_stop_loss, use_trailing_stop, hold_days,
          notifier_enabled, data,
          bottom_results, top_results, pc, i, st, ev, gh, result,
          mpc, now, cycle, idx, last_signals, outbox, mev, watchlist, config,
          check_interval, nf>>

----------------------------------------------------------------------------
(* Program constants *)

RsiPeriod == 14
MaPeriod == 10
BbPeriod == 20
BbNumStd == 2
MacdFast == 12
MacdSlow == 26
MacdSignal == 9
StopLossPct == 5
TrailKeepPct == 95
DefaultHoldDays == 10
Threshold2 == 6

(* Python None for self.data, for a date and for a reason list *)
NoData == [loaded |-> FALSE, rows |-> << >>]
Loaded(rows) == [loaded |-> TRUE, rows |-> rows]
NoneDate == 0 - 1
NoneReason == <<"None">>

----------------------------------------------------------------------------
(* Column access by the code's 0-based row index *)

Open(d, k) == d[k + 1].open
High(d, k) == d[k + 1].high
Low(d, k) == d[k + 1].low
Close(d, k) == d[k + 1].close
Vol(d, k) == d[k + 1].vol
TradeDate(d, k) == d[k + 1].trade_date

Abs(x) == IF x < 0 THEN 0 - x ELSE x

RECURSIVE Gcd(_, _)
Gcd(a, b) == IF b = 0 THEN Abs(a) ELSE Gcd(b, a % b)


(* sum / sum of squares of close[a..b] *)
RECURSIVE SumClose(_, _, _)
SumClose(d, a, b) == IF a > b THEN 0 ELSE Close(d, a) + SumClose(d, a + 1, b)

RECURSIVE SumSqClose(_, _, _)
SumSqClose(d, a, b) ==
    IF a > b THEN 0 ELSE Close(d, a) * Close(d, a) + SumSqClose(d, a + 1, b)

----------------------------------------------------------------------------
(* Exact rationals [n, d] with d > 0, kept in lowest terms *)

Rat(n, d) == LET g == Gcd(n, d) IN [n |-> n \div g, d |-> d \div g]
RInt(x) == [n |-> x, d |-> 1]
RAdd(a, b) ==
    LET g == Gcd(a.d, b.d)
    IN  Rat(a.n * (b.d \div g) + b.n * (a.d \div g), (a.d \div g) * b.d)
RNeg(a) == [n |-> 0 - a.n, d |-> a.d]
RSub(a, b) == RAdd(a, RNeg(b))
RScale(a, p, q) == Rat(a.n * p, a.d * q)
RLess(a, b) ==
    LET g == Gcd(a.d, b.d) IN a.n * (b.d \div g) < b.n * (a.d \div g)

----------------------------------------------------------------------------
(* get_data: which indicator columns the frame has *)

HasRsi(d) == Len(d) > RsiPeriod
HasMacd(d) == Len(d) > MacdSlow
HasBb(d) == Len(d) > BbPeriod
HasAtr(d) == Len(d) > RsiPeriod

(* df['close'].rolling(10).mean(): NaN before 10 closes exist, and every
   comparison with NaN is False *)
Ma10Defined(d, k) == k >= MaPeriod - 1
CloseBelowMa10(d, k) ==
    /\ Ma10Defined(d, k)
    /\ MaPeriod * Close(d, k) < SumClose(d, k - (MaPeriod - 1), k)
CloseAboveMa10(d, k) ==
    /\ Ma10Defined(d, k)
    /\ MaPeriod * Close(d, k) > SumClose(d, k - (MaPeriod - 1), k)

(* calculate_rsi.  deltas[j] = prices[j+1] - prices[j] *)
Delta(d, j) == Close(d, j + 1) - Close(d, j)

(* seed = deltas[:period+1]: rows 0..period of deltas, as far as they exist *)
SeedLast(d) == IF Len(d) - 2 < RsiPeriod THEN Len(d) - 2 ELSE RsiPeriod

RECURSIVE SeedUp(_, _, _)
SeedUp(d, a, b) ==
    IF a > b THEN 0
    ELSE (IF Delta(d, a) >= 0 THEN Delta(d, a) ELSE 0) + SeedUp(d, a + 1, b)

RECURSIVE SeedDown(_, _, _)
SeedDown(d, a, b) ==
    IF a > b THEN 0
    ELSE (IF Delta(d, a) < 0 THEN 0 - Delta(d, a) ELSE 0) + SeedDown(d, a + 1, b)

(* the pair (up, down) as up = u / den, down = dn / den, in lowest terms *)
UpDown(u, dn, den) ==
    LET g == Gcd(Gcd(u, dn), den)
    IN  [u |-> u \div g, dn |-> dn \div g, den |-> den \div g]

RECURSIVE RsiUpDown(_, _)
RsiUpDown(d, k) ==
    IF k < RsiPeriod
    THEN UpDown(SeedUp(d, 0, SeedLast(d)), SeedDown(d, 0, SeedLast(d)), RsiPeriod)
    ELSE LET prev == RsiUpDown(d, k - 1)
             delta == Delta(d, k - 1)
             upval == IF delta > 0 THEN delta ELSE 0
             downval == IF delta > 0 THEN 0 ELSE 0 - delta
         IN  UpDown(prev.u * (RsiPeriod - 1) + upval * prev.den,
                    prev.dn * (RsiPeriod - 1) + downval * prev.den,
                    prev.den * RsiPeriod)

(* rsi[k] = 100 - 100/(1 + rs), rs = up/down if down != 0 else 0,
   that is 100*up/(up+down), and 0 when down = 0 *)
Rsi(d, k) ==
    LET s == RsiUpDown(d, k)
    IN  IF s.dn = 0 THEN RInt(0) ELSE Rat(100 * s.u, s.u + s.dn)

(* calculate_bollinger_bands: zeros before row period-1; population std.
   With S, Q the sum and sum of squares of the window (w = period values):
   std^2 = (w*Q - S^2) / w^2, so  x <= mean - 2*std  iff
   S - w*x >= 0 /\ 4*(w*Q - S^2) <= (S - w*x)^2. *)
BbDefined(d, k) == k >= BbPeriod - 1
BbS(d, k) == SumClose(d, k - (BbPeriod - 1), k)
BbVar(d, k) == BbPeriod * SumSqClose(d, k - (BbPeriod - 1), k) - BbS(d, k) * BbS(d, k)

LowAtOrBelowBbLower(d, k) ==
    IF ~BbDefined(d, k) THEN Low(d, k) <= 0
    ELSE LET m == BbS(d, k) - BbPeriod * Low(d, k)
         IN  m >= 0 /\ BbNumStd * BbNumStd * BbVar(d, k) <= m * m

HighAtOrAboveBbUpper(d, k) ==
    IF ~BbDefined(d, k) THEN High(d, k) >= 0
    ELSE LET m == BbPeriod * High(d, k) - BbS(d, k)
         IN  m >= 0 /\ BbNumStd * BbNumStd * BbVar(d, k) <= m * m

(* calculate_macd: both EMAs are zero before row slow_period-1, start there
   from the mean of the first slow_period prices and then follow
   ema[k] = (p[k] - ema[k-1]) * 2/(period+1) + ema[k-1] *)
RECURSIVE Ema(_, _, _)
Ema(d, k, period) ==
    IF k < MacdSlow - 1 THEN RInt(0)
    ELSE IF k = MacdSlow - 1 THEN Rat(SumClose(d, 0, MacdSlow - 1), MacdSlow)
    ELSE LET prev == Ema(d, k - 1, period)
         IN  RAdd(RScale(RSub(RInt(Close(d, k)), prev), 2, period + 1), prev)

MacdLine(d, k) == RSub(Ema(d, k, MacdFast), Ema(d, k, MacdSlow))

RECURSIVE SumMacd(_, _, _)
SumMacd(d, a, b) ==
    IF a > b THEN RInt(0) ELSE RAdd(MacdLine(d, a), SumMacd(d, a + 1, b))

(* signal_line: zero before row slow+signal-1, seeded there with the mean of
   macd_line[slow-1 : slow+signal-1] *)
SignalStart == MacdSlow + MacdSignal - 1

RECURSIVE SignalLine(_, _)
SignalLine(d, k) ==
    IF k < SignalStart THEN RInt(0)
    ELSE IF k = SignalStart
         THEN RScale(SumMacd(d, MacdSlow - 1, SignalStart - 1), 1, MacdSignal)
    ELSE LET prev == SignalLine(d, k - 1)
         IN  RAdd(RScale(RSub(MacdLine(d, k), prev), 2, MacdSignal + 1), prev)

MacdHist(d, k) == RSub(MacdLine(d, k), SignalLine(d, k))

(* signal_line[slow+signal-1] = ... is an IndexError on a shorter array *)
MacdRaises(d) == HasMacd(d) /\ Len(d) <= SignalStart

----------------------------------------------------------------------------
(* Pattern scoring.  The four copies of the scoring code (batch and causal,
   in both files) test the same six conditions in the same order on the
   frame get_data built; the causal copies read them through
   current_data = df.iloc[:i+1], which keeps df's columns and values. *)

IsBottomFractal(d, k) == Low(d, k) < Low(d, k - 1) /\ Low(d, k) < Low(d, k + 1)
IsTopFractal(d, k) == High(d, k) > High(d, k - 1) /\ High(d, k) > High(d, k + 1)

BottomCond(d, k) ==
    << Close(d, k) > Open(d, k),
       k > 0 /\ Vol(d, k) > Vol(d, k - 1),
       CloseBelowMa10(d, k),
       HasRsi(d) /\ RLess(Rsi(d, k), RInt(30)),
       HasBb(d) /\ LowAtOrBelowBbLower(d, k),
       HasMacd(d) /\ RLess(MacdLine(d, k), RInt(0)) /\ k > 0
                  /\ RLess(MacdHist(d, k - 1), MacdHist(d, k)) >>

TopCond(d, k) ==
    << Close(d, k) < Open(d, k),
       k > 0 /\ Vol(d, k) > Vol(d, k - 1),
       CloseAboveMa10(d, k),
       HasRsi(d) /\ RLess(RInt(70), Rsi(d, k)),
       HasBb(d) /\ HighAtOrAboveBbUpper(d, k),
       HasMacd(d) /\ RLess(RInt(0), MacdLine(d, k)) /\ k > 0
                  /\ RLess(MacdHist(d, k), MacdHist(d, k - 1)) >>

(* a wrong table, the RSI factor weighing 1: C6 fails against it *)
WeightRsiOne(j) == <<2, 2, 2, 2, 3, 3>>[j]

(* score += 1 / 1 / 1 / 2 / 1.5 / 1.5, doubled *)
Weight2(j) == <<2, 2, 2, 4, 3, 3>>[j]

BottomLabel(j) ==
    <<"bullish", "volume", "downtrend", "rsi_low", "bb_lower", "macd_up">>[j]
TopLabel(j) ==
    <<"bearish", "volume", "uptrend", "rsi_high", "bb_upper", "macd_down">>[j]

NFactors == 6

(* the if-chain: factors 1..j have been tested, in order *)
RECURSIVE BottomAcc(_, _)
BottomAcc(cond, j) ==
    IF j = 0 THEN [score2 |-> 0, reason |-> << >>]
    ELSE LET a == BottomAcc(cond, j - 1)
         IN  IF cond[j]
             THEN [score2 |-> a.score2 + Weight2(j),
                   reason |-> Append(a.reason, BottomLabel(j))]
             ELSE a

RECURSIVE TopAcc(_, _)
TopAcc(cond, j) ==
    IF j = 0 THEN [score2 |-> 0, reason |-> << >>]
    ELSE LET a == TopAcc(cond, j - 1)
         IN  IF cond[j]
             THEN [score2 |-> a.score2 + Weight2(j),
                   reason |-> Append(a.reason, TopLabel(j))]
             ELSE a

BottomScore(d, k) == BottomAcc(BottomCond(d, k), NFactors)
TopScore(d, k) == TopAcc(TopCond(d, k), NFactors)

(* a wrong threshold test, score > 3: C7 fails against it *)
PassesStrict(score2) == score2 > Threshold2

(* if score >= 3 *)
Passes(score2) == score2 >= Threshold2

(* identify_bottom_pattern / identify_top_pattern: for i in range(1, len-1) *)
RECURSIVE BottomPatterns(_, _)
BottomPatterns(d, k) ==
    IF k < 1 THEN << >>
    ELSE LET rest == BottomPatterns(d, k - 1)
             sc == BottomScore(d, k)
         IN  IF IsBottomFractal(d, k) /\ Passes(sc.score2)
             THEN Append(rest, [index |-> k, date |-> TradeDate(d, k),
                                price |-> Close(d, k), low |-> Low(d, k),
                                volume |-> Vol(d, k), score2 |-> sc.score2,
                                reason |-> sc.reason])
             ELSE rest

RECURSIVE TopPatterns(_, _)
TopPatterns(d, k) ==
    IF k < 1 THEN << >>
    ELSE LET rest == TopPatterns(d, k - 1)
             sc == TopScore(d, k)
         IN  IF IsTopFractal(d, k) /\ Passes(sc.score2)
             THEN Append(rest, [index |-> k, date |-> TradeDate(d, k),
                                price |-> Close(d, k), high |-> High(d, k),
                                volume |-> Vol(d, k), score2 |-> sc.score2,
                                reason |-> sc.reason])
             ELSE rest

LastBatchIndex(d) == Len(d) - 2
identify_bottom_pattern(d) == BottomPatterns(d, LastBatchIndex(d))
identify_top_pattern(d) == TopPatterns(d, LastBatchIndex(d))

----------------------------------------------------------------------------
(* backtest_strategy_realtime: locals, trade records, exit conditions *)

(* p: the call's parameters and the notifier's switch *)
Params(sl, ts, hd, ne) ==
    [use_stop_loss |-> sl, use_trailing_stop |-> ts, hold_days |-> hd,
     stop_loss_pct |-> StopLossPct, notifier_enabled |-> ne]

InitLocals(im) ==
    [holding |-> FALSE, buy_price |-> 0,
     buy_date |-> NoneDate,
     buy_reason |-> IF im = "wx" THEN NoneReason ELSE << >>,
     highest_price |-> 0,
     pending_buy_signal |-> FALSE,
     pending_buy_reason |-> IF im = "wx" THEN NoneReason ELSE << >>,
     pending_sell_signal |-> FALSE,
     pending_sell_reason |-> "",
     trades |-> << >>]

(* what one pass through the loop body logged; a score of -1: not scored;
   risk_checked: the stop conditions were evaluated for a held position,
   with risk_highest and risk_buy the highest_price and buy_price they read *)
NoScore == 0 - 1
NoEvents ==
    [buy_fill |-> FALSE, sell_fill |-> FALSE,
     bottom_score2 |-> NoScore, bottom_reason |-> << >>, bottom_signal |-> FALSE,
     top_score2 |-> NoScore, top_signal |-> FALSE,
     risk |-> "none", risk_checked |-> FALSE, risk_highest |-> 0,
     risk_buy |-> 0, raised |-> FALSE, finished |-> FALSE]

(* the rows at which the latest bottom / top signal was logged, the reasons
   of that bottom signal, the number of trades before the last bar, the
   locals as the last bar found them, and the number of entry fills so far *)
NoSignals ==
    [buy_signal_row |-> NoScore, buy_signal_reason |-> << >>,
     sell_signal_row |-> NoScore, sell_signal_trade |-> NoScore,
     trades_before |-> 0, before |-> InitLocals("wx"), entry_fills |-> 0]

(* (pd.to_datetime(a) - pd.to_datetime(b)).days *)
DaysBetween(later, earlier) == later - earlier

TradeRecord(s, sell_date, sell_price, sell_reason) ==
    [buy_date |-> s.buy_date, buy_price |-> s.buy_price,
     buy_reason |-> s.buy_reason,
     sell_date |-> sell_date, sell_price |-> sell_price,
     sell_reason |-> sell_reason,
     profit_pct |-> Rat((sell_price - s.buy_price) * 100, s.buy_price),
     hold_days |-> DaysBetween(sell_date, s.buy_date)]

(* wrong prices, the signal bar's close for a pattern fill and the bar's
   open for a risk exit: C2 and C3 fail against them *)
FillAtSignalClose(d, i_) == Close(d, i_ - 1)
RiskAtOpen(d, i_) == Open(d, i_)

(* the price a pattern signal is filled at, and the one a risk exit uses *)
FillPrice(d, i_) == Open(d, i_)
RiskPrice(d, i_) == Close(d, i_)

(* a wrong boundary, current_price < buy_price * (1 - stop_loss_pct/100):
   C11 fails against it *)
StopLossHitStrict(price, buy_price, pct) == price * 100 < buy_price * (100 - pct)

(* current_price <= buy_price * (1 - stop_loss_pct/100) *)
StopLossHit(price, buy_price, pct) == price * 100 <= buy_price * (100 - pct)

(* a wrong boundary, current_price < highest_price * 0.95: C10 fails
   against it *)
TrailingHitStrict(price, highest_price, buy_price) ==
    highest_price > buy_price /\ price * 100 < highest_price * TrailKeepPct

(* highest_price > buy_price and current_price <= highest_price * 0.95 *)
TrailingHit(price, highest_price, buy_price) ==
    highest_price > buy_price /\ price * 100 <= highest_price * TrailKeepPct

(* days_held >= hold_days *)
MaxHoldHit(days_held, hd) == days_held >= hd

(* the alert texts read df['rsi'], df['macd'], df['bb_lower'], df['bb_upper']:
   a KeyError when get_data left one of the columns out *)
SnapshotRaises(d, p) ==
    p.notifier_enabled /\ ~(HasRsi(d) /\ HasMacd(d) /\ HasBb(d))

----------------------------------------------------------------------------
(* The loop body, as the sequence of its blocks.  x = [s |-> locals,
   e |-> events of this bar]; a block after a raise does nothing. *)

Reset(s) ==
    [s EXCEPT !.holding = FALSE, !.buy_price = 0, !.buy_date = NoneDate,
              !.highest_price = 0]

(* first row the causal check is made at: "if i >= 3" / "i >= 2" *)
CausalMinStep(im) == IF im = "wx" THEN 3 ELSE 2

(* ---- src/底分型微信通知.py ---- *)

WxFills(d, p, x, i_) ==
    LET s == x.s
    IN  IF s.pending_buy_signal /\ ~s.holding
        THEN LET s1 == [s EXCEPT !.holding = TRUE,
                                 !.buy_price = FillPrice(d, i_),
                                 !.buy_date = TradeDate(d, i_),
                                 !.highest_price = FillPrice(d, i_),
                                 !.buy_reason = s.pending_buy_reason]
             IN  IF SnapshotRaises(d, p)
                 THEN [s |-> s1,
                       e |-> [x.e EXCEPT !.buy_fill = TRUE, !.raised = TRUE]]
                 ELSE [s |-> [s1 EXCEPT !.pending_buy_signal = FALSE,
                                        !.pending_buy_reason = NoneReason],
                       e |-> [x.e EXCEPT !.buy_fill = TRUE]]
        ELSE IF s.pending_sell_signal /\ s.holding
        THEN LET s1 == [s EXCEPT !.trades =
                           Append(@, TradeRecord(s, TradeDate(d, i_),
                                                 FillPrice(d, i_), "top_pattern"))]
             IN  IF SnapshotRaises(d, p)
                 THEN [s |-> s1,
                       e |-> [x.e EXCEPT !.sell_fill = TRUE, !.raised = TRUE]]
                 ELSE [s |-> [Reset(s1) EXCEPT !.pending_sell_signal = FALSE],
                       e |-> [x.e EXCEPT !.sell_fill = TRUE]]
        ELSE x

WxTrack(d, x, i_) ==
    IF ~x.e.raised /\ x.s.holding /\ Close(d, i_) > x.s.highest_price
    THEN [x EXCEPT !.s.highest_price = Close(d, i_)]
    ELSE x

WxBottom(d, p, x, i_) ==
    IF x.e.raised \/ x.s.holding \/ x.s.pending_buy_signal
       \/ i_ < CausalMinStep("wx") \/ ~IsBottomFractal(d, i_ - 1)
    THEN x
    ELSE LET sc == BottomScore(d, i_ - 1)
             e1 == [x.e EXCEPT !.bottom_score2 = sc.score2,
                               !.bottom_reason = sc.reason]
         IN  IF Passes(sc.score2)
             THEN [s |-> [x.s EXCEPT !.pending_buy_signal = TRUE,
                                     !.pending_buy_reason = sc.reason],
                   e |-> [e1 EXCEPT !.bottom_signal = TRUE,
                                    !.raised = SnapshotRaises(d, p)]]
             ELSE [x EXCEPT !.e = e1]

WxTop(d, p, x, i_) ==
    IF x.e.raised \/ ~x.s.holding \/ x.s.pending_sell_signal
       \/ i_ < CausalMinStep("wx") \/ ~IsTopFractal(d, i_ - 1)
    THEN x
    ELSE LET sc == TopScore(d, i_ - 1)
             e1 == [x.e EXCEPT !.top_score2 = sc.score2]
         IN  IF Passes(sc.score2)
             THEN [s |-> [x.s EXCEPT !.pending_sell_signal = TRUE],
                   e |-> [e1 EXCEPT !.top_signal = TRUE,
                                    !.raised = SnapshotRaises(d, p)]]
             ELSE [x EXCEPT !.e = e1]

RiskExit(d, x, i_, why) ==
    [s |-> Reset([x.s EXCEPT !.trades =
                     Append(@, TradeRecord(x.s, TradeDate(d, i_),
                                           RiskPrice(d, i_), why))]),
     e |-> [x.e EXCEPT !.risk = why]]

Checked(x) ==
    [x EXCEPT !.e.risk_checked = TRUE, !.e.risk_highest = x.s.highest_price,
              !.e.risk_buy = x.s.buy_price]

WxRisk(d, p, x, i_) ==
    LET s == x.s
        price == RiskPrice(d, i_)
        y == Checked(x)
    IN  IF x.e.raised \/ ~s.holding THEN x
        ELSE IF p.use_stop_loss /\ StopLossHit(price, s.buy_price, p.stop_loss_pct)
        THEN RiskExit(d, y, i_, "stop_loss")
        ELSE IF p.use_trailing_stop
                /\ TrailingHit(price, s.highest_price, s.buy_price)
        THEN RiskExit(d, y, i_, "trailing_stop")
        ELSE IF s.buy_date # NoneDate /\ p.hold_days > 0
                /\ MaxHoldHit(DaysBetween(TradeDate(d, i_), s.buy_date), p.hold_days)
        THEN RiskExit(d, y, i_, "max_hold")
        ELSE y

WxLoopBody(d, p, s, i_) ==
    WxRisk(d, p,
      WxTop(d, p,
        WxBottom(d, p,
          WxTrack(d, WxFills(d, p, [s |-> s, e |-> NoEvents], i_), i_),
          i_), i_), i_)

(* ---- src/底分型.py ---- *)

BaseTrack(d, x, i_) ==
    IF x.s.holding /\ High(d, i_) > x.s.highest_price
    THEN [x EXCEPT !.s.highest_price = High(d, i_)]
    ELSE x

BaseBuyFill(d, x, i_) ==
    IF x.s.pending_buy_signal /\ ~x.s.holding
    THEN [s |-> [x.s EXCEPT !.buy_price = FillPrice(d, i_),
                            !.buy_date = TradeDate(d, i_),
                            !.buy_reason = x.s.pending_buy_reason,
                            !.holding = TRUE,
                            !.highest_price = FillPrice(d, i_),
                            !.pending_buy_signal = FALSE],
          e |-> [x.e EXCEPT !.buy_fill = TRUE]]
    ELSE x

BaseSellFill(d, x, i_) ==
    IF x.s.pending_sell_signal /\ x.s.holding
    THEN [s |-> [x.s EXCEPT !.trades =
                    Append(@, TradeRecord(x.s, TradeDate(d, i_), FillPrice(d, i_),
                                          x.s.pending_sell_reason)),
                            !.holding = FALSE,
                            !.pending_sell_signal = FALSE],
          e |-> [x.e EXCEPT !.sell_fill = TRUE]]
    ELSE x

BaseBottom(d, p, x, i_) ==
    IF x.s.holding \/ x.s.pending_buy_signal
       \/ i_ < CausalMinStep("base") \/ ~IsBottomFractal(d, i_ - 1)
    THEN x
    ELSE LET sc == BottomScore(d, i_ - 1)
             e1 == [x.e EXCEPT !.bottom_score2 = sc.score2,
                               !.bottom_reason = sc.reason]
         IN  IF Passes(sc.score2)
             THEN [s |-> [x.s EXCEPT !.pending_buy_signal = TRUE,
                                     !.pending_buy_reason = sc.reason],
                   e |-> [e1 EXCEPT !.bottom_signal = TRUE,
                                    !.raised = SnapshotRaises(d, p)]]
             ELSE [x EXCEPT !.e = e1]

(* the top check inside "if holding and not pending_sell_signal": it only
   sets sell_reason_text *)
BaseTopCheck(d, p, x, i_) ==
    IF i_ < CausalMinStep("base") \/ ~IsTopFractal(d, i_ - 1)
    THEN x
    ELSE LET sc == TopScore(d, i_ - 1)
         IN  [x EXCEPT !.e.top_score2 = sc.score2,
                       !.e.top_signal = Passes(sc.score2),
                       !.e.raised = Passes(sc.score2) /\ SnapshotRaises(d, p)]

(* a wrong exit that records the trade and goes on holding: C31 fails
   against it *)
RiskExitStillHolding(d, x, i_, why) ==
    [s |-> [x.s EXCEPT !.trades =
               Append(@, TradeRecord(x.s, TradeDate(d, i_), RiskPrice(d, i_), why))],
     e |-> [x.e EXCEPT !.risk = why]]

BaseRiskExit(d, x, i_, why) ==
    [s |-> [x.s EXCEPT !.trades =
               Append(@, TradeRecord(x.s, TradeDate(d, i_), RiskPrice(d, i_), why)),
                       !.holding = FALSE],
     e |-> [x.e EXCEPT !.risk = why]]

(* the trailing-stop exit of 底分型.py: the record is appended, then
   "self.wechat.send_notification(title, content, level)" stands outside
   "if self.wechat.enabled", where alone title and content are bound; with
   the notifier off the call raises UnboundLocalError before the reset *)
BaseTrailingExit(d, p, x, i_) ==
    IF p.notifier_enabled
    THEN BaseRiskExit(d, x, i_, "trailing_stop")
    ELSE [s |-> [x.s EXCEPT !.trades =
                    Append(@, TradeRecord(x.s, TradeDate(d, i_),
                                          RiskPrice(d, i_), "trailing_stop"))],
          e |-> [x.e EXCEPT !.risk = "trailing_stop", !.raised = TRUE]]

BaseHolding(d, p, x, i_) ==
    IF x.e.raised \/ ~x.s.holding \/ x.s.pending_sell_signal THEN x
    ELSE LET t == BaseTopCheck(d, p, x, i_)
             y == Checked(t)
             s == y.s
             price == RiskPrice(d, i_)
         IN  IF t.e.raised THEN t
             ELSE IF p.use_stop_loss
                     /\ StopLossHit(price, s.buy_price, p.stop_loss_pct)
             THEN BaseRiskExit(d, y, i_, "stop_loss")
             ELSE IF p.use_trailing_stop
                     /\ TrailingHit(price, s.highest_price, s.buy_price)
             THEN BaseTrailingExit(d, p, y, i_)
             ELSE IF y.e.top_signal
             THEN [y EXCEPT !.s.pending_sell_signal = TRUE,
                            !.s.pending_sell_reason = "top_pattern"]
             ELSE y

BaseLoopBody(d, p, s, i_) ==
    BaseHolding(d, p,
      BaseBottom(d, p,
        BaseSellFill(d,
          BaseBuyFill(d, BaseTrack(d, [s |-> s, e |-> NoEvents], i_), i_),
          i_), i_), i_)

LoopBody(im, d, p, s, i_) ==
    IF im = "wx" THEN WxLoopBody(d, p, s, i_) ELSE BaseLoopBody(d, p, s, i_)

(* a wrong ending that leaves the last position open: C13 fails against it *)
LeaveOpenAtEnd(im, d, s) == s

(* after the loop: "if holding" (and len(df) > 0 in 底分型.py) *)
CloseAtEnd(im, d, s) ==
    IF s.holding /\ (im = "wx" \/ Len(d) > 0)
    THEN [s EXCEPT !.trades =
             Append(@, TradeRecord(s, TradeDate(d, Len(d) - 1),
                                   Close(d, Len(d) - 1), "end_of_data"))]
    ELSE s

(* the statistics of the returned dict *)
RECURSIVE SumProfit(_, _)
SumProfit(tr, n) ==
    IF n = 0 THEN RInt(0) ELSE RAdd(SumProfit(tr, n - 1), tr[n].profit_pct)

RECURSIVE SumHold(_, _)
SumHold(tr, n) == IF n = 0 THEN 0 ELSE SumHold(tr, n - 1) + tr[n].hold_days

(* a wrong count that takes a trade closed at its buy price for a win: C25
   fails against it *)
WinOrEven(t) == t.profit_pct.n >= 0

IsWin(t) == t.profit_pct.n > 0
WinTrades(tr) == Cardinality({n \in 1..Len(tr) : IsWin(tr[n])})

RMax(a, b) == IF RLess(a, b) THEN b ELSE a
RMin(a, b) == IF RLess(b, a) THEN b ELSE a

RECURSIVE MaxProfit(_, _)
MaxProfit(tr, n) ==
    IF n = 1 THEN tr[1].profit_pct
    ELSE RMax(MaxProfit(tr, n - 1), tr[n].profit_pct)

RECURSIVE MinProfit(_, _)
MinProfit(tr, n) ==
    IF n = 1 THEN tr[1].profit_pct
    ELSE RMin(MinProfit(tr, n - 1), tr[n].profit_pct)

Statistics(tr) ==
    [kind |-> "stats",
     total_trades |-> Len(tr),
     total_profit_pct |-> SumProfit(tr, Len(tr)),
     avg_profit_pct |-> RScale(SumProfit(tr, Len(tr)), 1, Len(tr)),
     win_rate |-> Rat(WinTrades(tr), Len(tr)),
     max_profit_pct |-> MaxProfit(tr, Len(tr)),
     max_loss_pct |-> MinProfit(tr, Len(tr)),
     avg_hold_days |-> Rat(SumHold(tr, Len(tr)), Len(tr)),
     details |-> tr]

(* the three texts returned instead of statistics:
   "no_data" 没有数据可供回测, "no_trades" 回测期间没有产生任何交易,
   "no_signals" 没有足够的交易信号进行回测 *)
Message(text) == [kind |-> "message", text |-> text]

(* a wrong ending that returns a dict whatever the trades: C9 fails
   against it *)
ResultAlwaysDict(im, tr) ==
    [kind |-> "stats", total_trades |-> Len(tr), details |-> tr]

BacktestResult(im, tr) ==
    IF tr = << >>
    THEN Message(IF im = "wx" THEN "no_trades" ELSE "no_signals")
    ELSE Statistics(tr)

----------------------------------------------------------------------------
(* Inputs: the series the provider returns, in price ticks of 0.01.
   A series is one of
   - a quiet history (flat at 110.00, ending in a bullish dip on expanding
     volume) followed by up to MaxTail bars drawn from BarSet;
   - without history, up to ShortLen bars drawn from ShortSet;
   - a low-priced series of LongLen bars, flat at 0.20 except for row
     EarlyRow, drawn from EarlySet, and rows MacdSlow and MacdSlow + 1, drawn
     from LongSet (long enough for every indicator column);
   - a flat low-priced series of MidLen bars, a length at which
     calculate_macd raises;
   - the flat bar, the dip and then quiet bars, RsiPeriod + 1 bars in all;
   - the history followed by a top, a second dip and three quiet bars. *)

HistLen == 11
MaxTail == 4
ShortLen == 3
LongLen == 35
MidLen == 27
EarlyRow == 5

Bar(o, h, l, c, v) == [open |-> o, high |-> h, low |-> l, close |-> c, vol |-> v]

Flat == Bar(11000, 11000, 11000, 11000, 100)
Dip == Bar(9500, 9700, 9000, 9600, 200)
Quiet == Bar(10000, 10100, 9900, 10000, 100)
Peak == Bar(12000, 12000, 11900, 12000, 300)
Top == Bar(12000, 12000, 11800, 11900, 300)
Pull1140 == Bar(11500, 11500, 11400, 11400, 100)
Pull1140a == Bar(11500, 11500, 11400, 11401, 100)
Crash == Bar(10000, 10000, 9400, 9500, 100)

BarSet == {Quiet, Peak, Top, Pull1140, Pull1140a, Crash}

ShortSet == {Quiet, Top}

Flat20 == Bar(20, 20, 20, 20, 1)
Spike == Bar(21, 22, 20, 20, 2)
SpikeQuiet == Bar(21, 22, 20, 20, 1)
Drop == Bar(20, 20, 10, 10, 1)
Rebound == Bar(8, 18, 5, 18, 2)
Rise == Bar(20, 30, 20, 30, 1)
Fade == Bar(32, 35, 22, 22, 2)

EarlySet == {Flat20, Spike, SpikeQuiet}
LongSet == {Flat20, Drop, Rebound, Rise, Fade}

LongSeries(e, a, b) ==
    [k \in 1..LongLen |->
        IF k = EarlyRow + 1 THEN e
        ELSE IF k = MacdSlow + 1 THEN a
        ELSE IF k = MacdSlow + 2 THEN b
        ELSE Flat20]

History(h) ==
    [k \in 1..h |-> IF k = h THEN Dip ELSE Flat]

(* a second dip, on higher volume than the top before it, and the series
   that buys after the first dip, meets a top and a stop on the same bar, and
   buys again after the second dip *)
Flush == Bar(9500, 9700, 9000, 9600, 400)
Rebuy == History(HistLen) \o <<Quiet, Top, Flush, Quiet, Quiet, Quiet>>

(* the dip as the second bar of a series just long enough for get_data to
   add the rsi column: a bottom fractal at index 1 *)
EarlyDip ==
    [k \in 1..(RsiPeriod + 1) |-> IF k = 1 THEN Flat ELSE IF k = 2 THEN Dip ELSE Quiet]

(* trade dates are day numbers, five trading days a week *)
DayOfRow(k) == k + 2 * (k \div 5) + 1
Dated(rows) ==
    [k \in 1..Len(rows) |->
        [trade_date |-> DayOfRow(k - 1), open |-> rows[k].open,
         high |-> rows[k].high, low |-> rows[k].low,
         close |-> rows[k].close, vol |-> rows[k].vol]]

(* bars is one of the series of the family *)
IsSeries(b) ==
    \/ \E m \in 0..MaxTail : \E t \in [1..m -> BarSet] :
          b = Dated(History(HistLen) \o t)
    \/ \E m \in 0..ShortLen : \E t \in [1..m -> ShortSet] :
          b = Dated(t)
    \/ \E e \in EarlySet : \E x \in LongSet : \E y \in LongSet :
          b = Dated(LongSeries(e, x, y))
    \/ b = Dated([k \in 1..MidLen |-> Flat20])
    \/ b = Dated(EarlyDip)
    \/ b = Dated(Rebuy)

(* (use_stop_loss, use_trailing_stop, hold_days, notifier enabled) *)
ParamSet ==
    { <<TRUE, TRUE, DefaultHoldDays, FALSE>>,
      <<FALSE, TRUE, DefaultHoldDays, FALSE>>,
      <<TRUE, FALSE, 2, FALSE>>,
      <<TRUE, TRUE, DefaultHoldDays, TRUE>> }

Impls == {"wx", "base"}
Tasks == {"backtest", "batch"}

----------------------------------------------------------------------------
(* The monitors: run_multi_monitor (impl "wx", a watch-list, session gating,
   a handler per instrument and one around the loop) and run_live_monitor
   (impl "base", one instrument, a handler inside the loop).  The state
   starts where "while True" is entered. *)

RecentDays == 3

(* monitoring_config.get("check_interval", 60) / check_interval=60, minutes;
   the cap of run_multi_monitor's sleep, seconds *)
DefaultCheckInterval == 60
MaxSleepSeconds == 300

(* the clock: a day number (day 1 is a Monday, as for trade dates) and the
   time of day *)
Clock(d, h, m) == [day |-> d, hour |-> h, minute |-> m]
Weekday(d) == (d - 1) % 7

(* last_signals[code] = {"bottom": None, "top": None} *)
NoStored == [bottom |-> NoneDate, top |-> NoneDate]

(* one kind's check of one fetch: the date of patterns[-1] (NoneDate for an
   empty list), the stored date it was compared with, whether the alert went
   out *)
NoCheck == [date |-> NoneDate, stored_before |-> NoneDate, alerted |-> FALSE]

(* what one step of the monitor did: the instrument, how the step ended
   ("none": normally, "fault": an exception, "interrupt": KeyboardInterrupt),
   the two checks; scanned: the instruments processed so far in this
   iteration; caught: the per-instrument handler has caught an exception in
   this run *)
NoMonEvent ==
    [step |-> "none", code |-> "", kind |-> "none",
     bottom |-> NoCheck, top |-> NoCheck, scanned |-> {}, caught |-> FALSE,
     slept |-> 0]

(* sent: the (code, kind, date) alerts handed to the notifier; again: those
   handed over more than once; errors, shutdowns: error and shutdown
   notifications *)
EmptyOutbox == [sent |-> {}, again |-> {}, errors |-> 0, shutdowns |-> 0]

(* no notifier object under study *)
NoNotifier == [cls |-> "none"]

MonitorOff ==
    /\ mpc = "off"
    /\ now = Clock(0, 0, 0)
    /\ cycle = 0
    /\ idx = 0
    /\ last_signals = [c \in {} |-> NoStored]
    /\ outbox = EmptyOutbox
    /\ mev = NoMonEvent
    /\ watchlist = << >>
    /\ config = << >>
    /\ check_interval = 0
    /\ nf = NoNotifier

----------------------------------------------------------------------------
(* State machine of one strategy object and its caller *)

P == Params(use_stop_loss, use_trailing_stop, hold_days, notifier_enabled)

InitWith(tasks) ==
    /\ impl \in Impls
    /\ task \in tasks
    /\ IsSeries(bars)
    /\ \E q \in ParamSet :
         /\ use_stop_loss = q[1]
         /\ use_trailing_stop = q[2]
         /\ hold_days = q[3]
         /\ notifier_enabled = q[4]
    /\ data = NoData
    /\ bottom_results = << >>
    /\ top_results = << >>
    /\ pc = "new"
    /\ i = 0
    /\ st = InitLocals(impl)
    /\ ev = NoEvents
    /\ gh = NoSignals
    /\ result = Message("")
    /\ MonitorOff

Init == InitWith(Tasks)

(* get_data: the fetch, the indicator columns, self.data = df; any exception
   is logged and leaves self.data as it was *)
Fetched(rows) == IF MacdRaises(rows) THEN NoData ELSE Loaded(rows)

get_data ==
    /\ pc = "new"
    /\ data' = Fetched(bars)
    /\ pc' = "ready"
    /\ UNCHANGED <<impl, task, bars, use_stop_loss, use_trailing_stop, hold_days,
                   notifier_enabled, bottom_results, top_results, i, st, ev, gh, result>>
    /\ UNCHANGED monvars

(* a wrong store that appends to what an earlier call left: C24 fails
   against it *)
ExtendResults(stored, patterns) == stored \o patterns

(* self.bottom_results = patterns / self.top_results = patterns *)
StoreResults(stored, patterns) == patterns

(* identify_bottom_pattern, then identify_top_pattern (the monitor's order),
   and the two again on the same object.
   "if self.data is None: self.get_data()" and then self.data.copy(): an
   AttributeError when the second fetch fails as well *)
IdentifyBottom ==
    /\ pc \in {"ready", "done"} /\ task = "batch"
    /\ IF Fetched(bars).loaded
       THEN /\ data' = Fetched(bars)
            /\ bottom_results' =
                  StoreResults(bottom_results, identify_bottom_pattern(data'.rows))
            /\ pc' = "bottom_done"
            /\ result' = result
       ELSE /\ pc' = "raised"
            /\ result' = Message("AttributeError")
            /\ UNCHANGED <<data, bottom_results>>
    /\ UNCHANGED <<impl, task, bars, use_stop_loss, use_trailing_stop, hold_days,
                   notifier_enabled, top_results, i, st, ev, gh>>
    /\ UNCHANGED monvars

IdentifyTop ==
    /\ pc = "bottom_done" /\ task = "batch"
    /\ top_results' = StoreResults(top_results, identify_top_pattern(data.rows))
    /\ pc' = "done"
    /\ UNCHANGED <<impl, task, bars, use_stop_loss, use_trailing_stop, hold_days,
                   notifier_enabled, data, bottom_results, i, st, ev, gh, result>>
    /\ UNCHANGED monvars

(* backtest_strategy_realtime up to the loop *)
BacktestStart ==
    /\ pc = "ready" /\ task = "backtest"
    /\ IF impl = "wx" /\ (~data.loaded \/ Len(data.rows) = 0)
       THEN /\ result' = Message("no_data")
            /\ pc' = "done"
            /\ UNCHANGED <<data, i, st>>
       ELSE IF impl = "base" /\ ~Fetched(bars).loaded
       THEN /\ result' = Message("AttributeError")
            /\ pc' = "raised"
            /\ UNCHANGED <<data, i, st>>
       ELSE /\ data' = Fetched(bars)
            /\ st' = InitLocals(impl)
            /\ i' = 2
            /\ pc' = "loop"
            /\ result' = result
    /\ ev' = NoEvents
    /\ gh' = [NoSignals EXCEPT !.before = InitLocals(impl)]
    /\ UNCHANGED <<impl, task, bars, use_stop_loss, use_trailing_stop, hold_days,
                   notifier_enabled, bottom_results, top_results>>
    /\ UNCHANGED monvars

(* one pass of "for i in range(2, len(df))" *)
Logged(x, g, s, i_) ==
    [buy_signal_row |-> IF x.e.bottom_signal THEN i_ ELSE g.buy_signal_row,
     buy_signal_reason |->
        IF x.e.bottom_signal THEN x.e.bottom_reason ELSE g.buy_signal_reason,
     sell_signal_row |-> IF x.e.top_signal THEN i_ ELSE g.sell_signal_row,
     sell_signal_trade |->
        IF x.e.top_signal THEN Len(s.trades) + 1 ELSE g.sell_signal_trade,
     trades_before |-> Len(s.trades),
     before |-> s,
     entry_fills |-> IF x.e.buy_fill THEN g.entry_fills + 1 ELSE g.entry_fills]

AfterBody(x) ==
    /\ st' = x.s
    /\ ev' = x.e
    /\ gh' = Logged(x, gh, st, i)
    /\ pc' = IF x.e.raised THEN "raised" ELSE "loop"
    /\ result' = IF x.e.raised THEN Message("exception") ELSE result
    /\ i' = IF x.e.raised THEN i ELSE i + 1

LoopStep ==
    /\ pc = "loop" /\ i < Len(data.rows)
    /\ AfterBody(LoopBody(impl, data.rows, P, st, i))
    /\ UNCHANGED <<impl, task, bars, use_stop_loss, use_trailing_stop, hold_days,
                   notifier_enabled, data, bottom_results, top_results>>
    /\ UNCHANGED monvars

(* after the loop: close what is still held, return the statistics *)
BacktestReturn ==
    /\ pc = "loop" /\ i >= Len(data.rows)
    /\ st' = CloseAtEnd(impl, data.rows, st)
    /\ result' = BacktestResult(impl, st'.trades)
    /\ ev' = [NoEvents EXCEPT !.finished = TRUE]
    /\ gh' = [gh EXCEPT !.trades_before = Len(st.trades)]
    /\ pc' = "done"
    /\ UNCHANGED <<impl, task, bars, use_stop_loss, use_trailing_stop, hold_days,
                   notifier_enabled, data, bottom_results, top_results, i>>
    /\ UNCHANGED monvars

Next ==
    \/ get_data
    \/ IdentifyBottom
    \/ IdentifyTop
    \/ BacktestStart
    \/ LoopStep
    \/ BacktestReturn

Spec == Init /\ [][Next]_vars

----------------------------------------------------------------------------
(* Monitor inputs.  A fetch of the first instrument returns nothing, or the
   quiet history followed by 1..MonTail bars drawn from MonBarSet; a fetch of
   the second one nothing or the history and one quiet bar.  The clock is
   read on the day of the last tail bar or DaySpan days later, at one of
   TimesOfDay. *)

MonTail == 3
DaySpan == 2
MaxCycles == 3
MaxErrors == 2

Slump == Bar(10000, 10100, 8900, 10000, 100)
MonBarSet == {Quiet, Dip, Slump, Top}

MonWindows ==
    {<< >>} \cup
    UNION { { Dated(History(HistLen) \o t) : t \in [1..m -> MonBarSet] } :
            m \in 1..MonTail }

FirstDay == DayOfRow(HistLen + MonTail - 1)
MonDays == {FirstDay, FirstDay + DaySpan}
TimesOfDay ==
    {<<8, 0>>, <<8, 9>>, <<8, 10>>, <<9, 29>>, <<9, 30>>, <<15, 0>>, <<15, 1>>}
(* run_live_monitor never reads the time of day *)
TimesOf(im) == IF im = "wx" THEN TimesOfDay ELSE {<<9, 30>>}
(* the runs that study the configuration (task "watch") read the clock at
   the opening of the session only *)
Readings(im, tk) == IF tk = "watch" THEN {<<9, 30>>} ELSE TimesOf(im)

Minutes(t) == t.hour * 60 + t.minute
NotEarlier(t, u) ==
    t.day > u.day \/ (t.day = u.day /\ Minutes(t) >= Minutes(u))

(* watchlist = monitoring_config.get("watchlist") / stock_code *)
Watchlist(im) == IF im = "wx" THEN <<"IDX", "STK">> ELSE <<"IDX">>
Codes(im) == {Watchlist(im)[n] : n \in 1..Len(Watchlist(im))}

(* a wrong read of the oldest event, patterns[0]: C35 fails against it *)
FirstPatternDate(patterns) ==
    IF patterns = << >> THEN NoneDate ELSE patterns[1].date

(* patterns[-1]['date'], when the list is not empty *)
LastPatternDate(patterns) ==
    IF patterns = << >> THEN NoneDate ELSE patterns[Len(patterns)].date

(* what the monitor reads of one fetch: df.empty, and the last event of
   identify_bottom_pattern() and of identify_top_pattern() on that frame *)
Served(w) ==
    [empty |-> ~Fetched(w).loaded \/ w = << >>,
     last_date |-> IF w = << >> THEN NoneDate ELSE TradeDate(w, Len(w) - 1),
     bottom |-> IF ~Fetched(w).loaded \/ w = << >> THEN NoneDate
                ELSE LastPatternDate(identify_bottom_pattern(w)),
     top |-> IF ~Fetched(w).loaded \/ w = << >> THEN NoneDate
             ELSE LastPatternDate(identify_top_pattern(w))]

Feeds == { Served(w) : w \in MonWindows }
QuietFeeds == { Served(<< >>), Served(Dated(History(HistLen) \o <<Quiet>>)) }
FeedsOf(code) == IF code = "IDX" THEN Feeds ELSE QuietFeeds

(* how a pass over one instrument ends: normally, or with an exception or a
   KeyboardInterrupt after `at` of its four effects (store bottom date, send
   bottom alert, store top date, send top alert) *)
Outcomes ==
    {[kind |-> "none", at |-> 4]} \cup
    {[kind |-> k, at |-> n] : k \in {"fault", "interrupt"}, n \in 0..4}

----------------------------------------------------------------------------
(* The monitor's code *)

(* 9 <= hour <= 15 and (hour != 9 or minute >= 30) and
   (hour != 15 or minute == 0) and weekday() < 5 *)
is_trading_hours(t) ==
    /\ 9 <= t.hour /\ t.hour <= 15
    /\ (t.hour # 9 \/ t.minute >= 30)
    /\ (t.hour # 15 \/ t.minute = 0)
    /\ Weekday(t.day) < 5

(* a wrong window, minutes 0 to 10: C19 fails against it *)
ForceCheckTen(t) == t.hour = 8 /\ 0 <= t.minute /\ t.minute <= 10

(* current_time.hour == 8 and 0 <= current_time.minute < 10 *)
force_check(t) == t.hour = 8 /\ 0 <= t.minute /\ t.minute < 10

(* "if is_trading_hours or force_check"; run_live_monitor has no gate *)
ScansAt(im, t) == im = "base" \/ is_trading_hours(t) \/ force_check(t)

(* "patterns and (stored is None or patterns[-1]['date'] != stored)" *)
IsNew(date, stored) == date # NoneDate /\ (stored = NoneDate \/ date # stored)

(* a wrong window of a week: C15 fails against it *)
IsRecentWeek(today, date) == DaysBetween(today, date) <= 7

(* days_diff = (now - pattern_date).days; if days_diff <= 3 *)
IsRecent(today, date) == DaysBetween(today, date) <= RecentDays

(* one kind of one pass: the stored date is replaced once `stored_at` effects
   are done, the alert goes out once `alert_at` are *)
CheckKind(date, stored, today, enabled, o, stored_at, alert_at) ==
    [date |-> date,
     stored_before |-> stored,
     stored |-> IF o.at >= stored_at /\ IsNew(date, stored) THEN date ELSE stored,
     alerted |-> /\ o.at >= alert_at
                 /\ IsNew(date, stored)
                 /\ IsRecent(today, date)
                 /\ enabled]

(* the body of "for stock in watchlist" / of the loop of run_live_monitor for
   one fetch f ending as o *)
ScanBody(f, o, stored, today, enabled) ==
    IF f.empty
    THEN [bottom |-> [NoCheck EXCEPT !.stored_before = stored.bottom],
          top |-> [NoCheck EXCEPT !.stored_before = stored.top],
          stored |-> stored]
    ELSE LET b == CheckKind(f.bottom, stored.bottom, today, enabled, o, 1, 2)
             t == CheckKind(f.top, stored.top, today, enabled, o, 3, 4)
         IN  [bottom |-> [date |-> b.date, stored_before |-> b.stored_before,
                          alerted |-> b.alerted],
              top |-> [date |-> t.date, stored_before |-> t.stored_before,
                       alerted |-> t.alerted],
              stored |-> [bottom |-> b.stored, top |-> t.stored]]

AlertKeys(code, r) ==
    (IF r.bottom.alerted THEN {<<code, "bottom", r.bottom.date>>} ELSE {})
    \cup (IF r.top.alerted THEN {<<code, "top", r.top.date>>} ELSE {})

(* the per-instrument handler swallows nothing: C17 fails against it *)
UncaughtFault(im, o, at_end) ==
    IF o.kind = "none" THEN (IF at_end THEN "sleep" ELSE "scan") ELSE "returned"

(* where control goes after the pass: "except Exception" around the body in
   run_multi_monitor logs and goes on with the next instrument; in
   run_live_monitor it alerts and sleeps; KeyboardInterrupt reaches the
   handler around run_multi_monitor's loop, and nothing in run_live_monitor *)
AfterPass(im, o, at_end) ==
    IF o.kind = "interrupt" THEN (IF im = "wx" THEN "returned" ELSE "escaped")
    ELSE IF at_end THEN "sleep" ELSE "scan"

Plus(n, b) == IF b THEN n + 1 ELSE n

AfterScan(r, code, o, at_end) ==
    /\ last_signals' = [last_signals EXCEPT ![code] = r.stored]
    /\ outbox' =
         [sent |-> outbox.sent \cup AlertKeys(code, r),
          again |-> outbox.again \cup (outbox.sent \cap AlertKeys(code, r)),
          errors |-> Plus(outbox.errors,
                          impl = "base" /\ o.kind = "fault" /\ notifier_enabled),
          shutdowns |-> Plus(outbox.shutdowns,
                             impl = "wx" /\ o.kind = "interrupt"
                             /\ notifier_enabled)]
    /\ mev' = [step |-> "scan", code |-> code, kind |-> o.kind,
               bottom |-> r.bottom, top |-> r.top,
               scanned |-> mev.scanned \cup {code},
               caught |-> mev.caught \/ (impl = "wx" /\ o.kind = "fault"),
               slept |-> 0]
    /\ mpc' = AfterPass(impl, o, at_end)
    /\ idx' = IF mpc' = "scan" THEN idx + 1 ELSE 0

----------------------------------------------------------------------------
(* State machine of one monitor *)

(* the state in which "while True" is entered with the watch-list w, read
   from the configuration a moment before *)
CodesOf(w) == {w[n] : n \in 1..Len(w)}

MonStart(w) ==
    /\ bars = << >>
    /\ use_stop_loss = TRUE
    /\ use_trailing_stop = TRUE
    /\ hold_days = DefaultHoldDays
    /\ data = NoData
    /\ bottom_results = << >>
    /\ top_results = << >>
    /\ pc = "monitor"
    /\ i = 0
    /\ st = InitLocals(impl)
    /\ ev = NoEvents
    /\ gh = NoSignals
    /\ result = Message("")
    /\ mpc = "clock"
    /\ now = Clock(FirstDay, 0, 0)
    /\ cycle = 0
    /\ idx = 0
    /\ last_signals = [c \in CodesOf(w) |-> NoStored]
    /\ outbox = EmptyOutbox
    /\ mev = NoMonEvent
    /\ watchlist = w
    /\ config = w
    /\ nf = NoNotifier

MonInit ==
    /\ impl \in Impls
    /\ notifier_enabled \in BOOLEAN
    /\ task = "monitor"
    /\ check_interval = DefaultCheckInterval
    /\ MonStart(Watchlist(impl))

(* the top of "while True": current_time = datetime.datetime.now() and the
   gate *)
MonitorTick ==
    /\ mpc = "clock" /\ cycle < MaxCycles
    /\ \E d \in MonDays : \E t \in Readings(impl, task) :
          /\ NotEarlier(Clock(d, t[1], t[2]), now)
          /\ now' = Clock(d, t[1], t[2])
    /\ cycle' = cycle + 1
    /\ mpc' = IF ScansAt(impl, now') THEN "scan" ELSE "sleep"
    /\ idx' = IF ScansAt(impl, now') THEN 1 ELSE 0
    /\ mev' = [NoMonEvent EXCEPT !.step = "tick", !.caught = mev.caught]
    /\ UNCHANGED <<last_signals, outbox>>
    /\ UNCHANGED <<impl, notifier_enabled, watchlist, config, check_interval, nf>>
    /\ UNCHANGED stratvars

(* one instrument: the strategy object, get_data, both detectors, both
   checks, with whatever ends the pass early *)
ScanInstrument ==
    /\ mpc = "scan"
    /\ \E f \in FeedsOf(watchlist[idx]) : \E o \in Outcomes :
          /\ f.empty \/ f.last_date <= now.day
          /\ AfterScan(ScanBody(f, o, last_signals[watchlist[idx]],
                                now.day, notifier_enabled),
                       watchlist[idx], o, idx = Len(watchlist))
    /\ UNCHANGED <<now, cycle>>
    /\ UNCHANGED <<impl, notifier_enabled, watchlist, config, check_interval, nf>>
    /\ UNCHANGED stratvars

(* time.sleep(min(check_interval * 60, 300)) in run_multi_monitor,
   time.sleep(check_interval * 60) in run_live_monitor: seconds *)
SleepSeconds(im, ci) ==
    IF im = "wx" /\ ci * 60 > MaxSleepSeconds THEN MaxSleepSeconds ELSE ci * 60

(* time.sleep(...) returns, after mev.slept seconds *)
MonitorSleep ==
    /\ mpc = "sleep"
    /\ mpc' = "clock"
    /\ mev' = [mev EXCEPT !.step = "sleep", !.kind = "none",
                          !.slept = SleepSeconds(impl, check_interval)]
    /\ UNCHANGED <<now, cycle, idx, last_signals, outbox>>
    /\ UNCHANGED <<impl, notifier_enabled, watchlist, config, check_interval, nf>>
    /\ UNCHANGED stratvars

(* KeyboardInterrupt between two instruments, at the top of the loop or in
   the sleep: "except KeyboardInterrupt" around run_multi_monitor's loop
   sends the shutdown notification and the function returns;
   run_live_monitor catches only Exception *)
KeyboardInterrupt ==
    /\ mpc \in {"clock", "scan", "sleep"}
    /\ mpc' = IF impl = "wx" THEN "returned" ELSE "escaped"
    /\ outbox' = [outbox EXCEPT !.shutdowns =
                     Plus(@, impl = "wx" /\ notifier_enabled)]
    /\ mev' = [mev EXCEPT !.step = "interrupt", !.kind = "interrupt", !.slept = 0]
    /\ UNCHANGED <<now, cycle, idx, last_signals>>
    /\ UNCHANGED <<impl, notifier_enabled, watchlist, config, check_interval, nf>>
    /\ UNCHANGED stratvars

(* an exception at the top of the loop or in the sleep.  run_multi_monitor:
   outside the per-instrument handler, so "except Exception" around the loop
   sends the error notification and the function returns.  run_live_monitor:
   inside the loop's try, so the error notification, the handler's sleep and
   the next iteration *)
LoopFault ==
    /\ mpc \in {"clock", "sleep"}
    /\ outbox.errors < MaxErrors
    /\ mpc' = IF impl = "wx" THEN "returned" ELSE "sleep"
    /\ outbox' = [outbox EXCEPT !.errors = Plus(@, notifier_enabled)]
    /\ mev' = [mev EXCEPT !.step = "fault", !.kind = "fault", !.slept = 0]
    /\ UNCHANGED <<now, cycle, idx, last_signals>>
    /\ UNCHANGED <<impl, notifier_enabled, watchlist, config, check_interval, nf>>
    /\ UNCHANGED stratvars

MonNext ==
    \/ MonitorTick
    \/ ScanInstrument
    \/ MonitorSleep
    \/ KeyboardInterrupt
    \/ LoopFault

MonSpec == MonInit /\ [][MonNext]_vars

----------------------------------------------------------------------------
(* run_multi_monitor and its configuration.  The monitor starts with one of
   WatchLists, as config.json held it when run_multi_monitor loaded it (a
   file that may name a code twice); while the monitor sleeps, the watch-list
   management (add_watchlist_item, remove_watchlist_item) rewrites the file. *)

AllCodes == {"IDX", "STK"}
WatchLists == {<<"IDX", "STK">>, <<"STK", "STK">>}
EditCycle == 1

WatchInit ==
    /\ impl = "wx"
    /\ notifier_enabled = TRUE
    /\ task = "watch"
    /\ check_interval = DefaultCheckInterval
    /\ \E w \in WatchLists : MonStart(w)

(* add_watchlist_item: nothing when the code is already listed, else the
   item is appended; remove_watchlist_item: every item of that code goes *)
add_watchlist_item(cfg, code) ==
    IF code \in CodesOf(cfg) THEN cfg ELSE Append(cfg, code)

RECURSIVE remove_watchlist_item(_, _)
remove_watchlist_item(cfg, code) ==
    IF cfg = << >> THEN << >>
    ELSE IF Head(cfg) = code THEN remove_watchlist_item(Tail(cfg), code)
    ELSE <<Head(cfg)>> \o remove_watchlist_item(Tail(cfg), code)

(* one edit of the file, during the sleep that follows cycle EditCycle *)
EditConfig ==
    /\ mpc = "sleep"
    /\ cycle = EditCycle
    /\ config = watchlist
    /\ \E code \in AllCodes :
          \/ config' = add_watchlist_item(config, code)
          \/ config' = remove_watchlist_item(config, code)
    /\ config' # config
    /\ UNCHANGED <<mpc, now, cycle, idx, last_signals, outbox, mev, watchlist>>
    /\ UNCHANGED <<impl, notifier_enabled, check_interval, nf>>
    /\ UNCHANGED stratvars

WatchNext ==
    \/ MonNext
    \/ EditConfig

WatchSpec == WatchInit /\ [][WatchNext]_vars

----------------------------------------------------------------------------
(* Reading a state.  Rows: the frame the loop runs over; LastRow: the row
   the events in ev belong to (i has moved on unless the body raised). *)

Rows == data.rows
NRows == Len(data.rows)
LastRow == IF pc = "raised" THEN i ELSE i - 1
BarDone == pc \in {"loop", "raised"} /\ LastRow >= 2
Last(seq) == seq[Len(seq)]
Appended == Len(st.trades) = gh.trades_before + 1
RiskReasons == {"stop_loss", "trailing_stop", "max_hold"}

(* the entry of the position opened on the last row: still in the locals,
   or already in the trade record a same-bar risk exit wrote *)
EntryOfLastRow ==
    IF ev.risk \in RiskReasons
    THEN [price |-> Last(st.trades).buy_price, date |-> Last(st.trades).buy_date,
          reason |-> Last(st.trades).buy_reason]
    ELSE [price |-> st.buy_price, date |-> st.buy_date, reason |-> st.buy_reason]

RowOfDate(dt) == CHOOSE k \in 0..(NRows - 1) : TradeDate(Rows, k) = dt

----------------------------------------------------------------------------
(* C2: a bottom signal accepted on one bar is filled on the next processed
   bar at that bar's open and date, with the reasons of that detection, and
   every entry fill comes from the signal of the bar before; a top-pattern
   exit is one appended trade priced at the open of its own bar, a bar
   strictly after the one the top signal was logged on. *)
C2_PatternFillsAtNextOpen ==
    BarDone =>
      /\ gh.buy_signal_row = LastRow - 1 =>
            /\ ev.buy_fill
            /\ EntryOfLastRow.price = Open(Rows, LastRow)
            /\ EntryOfLastRow.date = TradeDate(Rows, LastRow)
            /\ EntryOfLastRow.reason = gh.buy_signal_reason
      /\ ev.buy_fill => gh.buy_signal_row = LastRow - 1
      /\ ev.sell_fill =>
            /\ Appended
            /\ Last(st.trades).sell_reason = "top_pattern"
            /\ Last(st.trades).sell_price = Open(Rows, LastRow)
            /\ Last(st.trades).sell_date = TradeDate(Rows, LastRow)
            /\ gh.sell_signal_row >= 2
            /\ gh.sell_signal_row < LastRow
      /\ \A n \in 1..Len(st.trades) :
            /\ st.trades[n].buy_price = Open(Rows, RowOfDate(st.trades[n].buy_date))
            /\ st.trades[n].sell_reason = "top_pattern" =>
                 st.trades[n].sell_price =
                    Open(Rows, RowOfDate(st.trades[n].sell_date))

(* a top-pattern exit has just been filled at an open that differs from the
   close of the signal bar, for an entry filled at the open after its signal *)
C2_Witness ==
    /\ BarDone /\ ev.sell_fill /\ ~ev.raised
    /\ Last(st.trades).sell_price = Open(Rows, LastRow)
    /\ Last(st.trades).sell_price # Close(Rows, gh.sell_signal_row)
    /\ Last(st.trades).buy_price = Open(Rows, gh.buy_signal_row + 1)
    /\ Last(st.trades).buy_price # Close(Rows, gh.buy_signal_row)
    /\ Last(st.trades).buy_reason = gh.buy_signal_reason

(* C3: every trade closed by stop-loss, trailing stop or max-hold is priced
   and dated at the close of the bar that triggered it, the fixed stop and
   max-hold conditions hold for that close, and the position is no longer
   held when the next bar starts. *)
C3_RiskExitsFillAtClose ==
    /\ BarDone /\ ev.risk \in RiskReasons =>
          /\ Appended
          /\ Last(st.trades).sell_reason = ev.risk
          /\ Last(st.trades).sell_price = Close(Rows, LastRow)
          /\ Last(st.trades).sell_date = TradeDate(Rows, LastRow)
          /\ ~st.holding
    /\ pc \in {"loop", "raised", "done"} =>
          \A n \in 1..Len(st.trades) :
             LET t == st.trades[n]
             IN  t.sell_reason \in RiskReasons =>
                   /\ t.sell_price = Close(Rows, RowOfDate(t.sell_date))
                   /\ t.sell_reason = "stop_loss" =>
                        t.sell_price * 100 <= t.buy_price * (100 - StopLossPct)
                   /\ t.sell_reason = "max_hold" => t.hold_days >= hold_days

(* a risk exit has just closed a trade at a close that differs from that
   bar's open *)
C3_Witness ==
    /\ BarDone /\ ev.risk \in RiskReasons /\ ~st.holding
    /\ Last(st.trades).sell_price = Close(Rows, LastRow)
    /\ Close(Rows, LastRow) # Open(Rows, LastRow)

(* C4: when a top pattern is detected on a bar on which a risk exit also
   fires, the trade is closed once, by the risk exit, at that close, and
   nothing stays pending: not held, no exit pending. *)
C4_RiskExitDiscardsTopSignal ==
    BarDone /\ ev.top_signal /\ ev.risk \in RiskReasons =>
      /\ Appended
      /\ Last(st.trades).sell_reason = ev.risk
      /\ Last(st.trades).sell_price = Close(Rows, LastRow)
      /\ ~st.holding
      /\ ~st.pending_sell_signal

(* C5: after every completed bar a pending entry exists only while not
   holding, a pending exit only while holding, never both, and a bottom
   signal is queued only by a bar that ended flat with no entry pending
   before it. *)
C5_PositionStateInvariant ==
    pc = "loop" =>
      /\ ~(st.pending_buy_signal /\ st.holding)
      /\ st.pending_sell_signal => st.holding
      /\ ~(st.pending_buy_signal /\ st.pending_sell_signal)
      /\ ev.bottom_signal => ~st.holding /\ ~ev.buy_fill

(* C9: a series of 0, 1 or 2 bars makes both batch detectors return no
   event, makes the backtest return a message instead of statistics with no
   trade attempted, and raises no exception anywhere. *)
C9_ShortInput ==
    Len(bars) < 3 =>
      /\ pc # "raised"
      /\ bottom_results = << >>
      /\ top_results = << >>
      /\ st.trades = << >>
      /\ ~st.holding /\ ~st.pending_buy_signal /\ ~st.pending_sell_signal
      /\ task = "backtest" /\ pc = "done" => result.kind = "message"

(* a two-bar series has been through the backtest, which returned a message *)
C9_Witness ==
    /\ Len(bars) = 2 /\ task = "backtest" /\ pc = "done"
    /\ result.kind = "message" /\ result.text \in {"no_trades", "no_signals"}
    /\ ev.finished

(* C10: with the trailing stop enabled and the fixed stop not firing, a held
   position is closed by the trailing stop on a bar if and only if the
   highest price since entry exceeds the entry price and the close is at or
   below 95% of that highest price; entry 100.00 with peak 120.00 exits at a
   close of 114.00 and does not exit at 114.01. *)
C10_TrailingStopInclusive ==
    BarDone =>
      /\ ev.risk = "trailing_stop" => ev.risk_checked /\ use_trailing_stop
      /\ ev.risk_checked /\ use_trailing_stop /\ ev.risk # "stop_loss" =>
           /\ ev.risk = "trailing_stop" <=>
                 /\ ev.risk_highest > ev.risk_buy
                 /\ Close(Rows, LastRow) * 100 <= ev.risk_highest * TrailKeepPct
           /\ ev.risk_buy = 10000 /\ ev.risk_highest = 12000 =>
                 /\ Close(Rows, LastRow) = 11401 => ev.risk # "trailing_stop"
                 /\ Close(Rows, LastRow) = 11400 => ev.risk = "trailing_stop"

(* entry 100.00, peak 120.00, and a close of exactly 114.00 has just been
   closed out by the trailing stop *)
C10_Witness ==
    /\ BarDone /\ ev.risk = "trailing_stop"
    /\ ev.risk_buy = 10000 /\ ev.risk_highest = 12000
    /\ Close(Rows, LastRow) = 11400
    /\ Last(st.trades).sell_price = 11400 /\ ~st.holding

(* the neighbouring case: same entry and peak, a close of 114.01, still held *)
TrailingNearMiss ==
    /\ BarDone /\ ev.risk_checked /\ use_trailing_stop /\ ev.risk = "none"
    /\ ev.risk_buy = 10000 /\ ev.risk_highest = 12000
    /\ Close(Rows, LastRow) = 11401 /\ st.holding

----------------------------------------------------------------------------
(* The risk conditions as the bar that evaluated them saw them: the entry the
   stops read, and each rule's condition on that bar's close *)
RiskEntryDate ==
    IF ev.risk \in RiskReasons THEN Last(st.trades).buy_date ELSE st.buy_date
StopCond ==
    use_stop_loss /\ Close(Rows, LastRow) * 100 <= ev.risk_buy * (100 - StopLossPct)
TrailCond ==
    /\ use_trailing_stop
    /\ ev.risk_highest > ev.risk_buy
    /\ Close(Rows, LastRow) * 100 <= ev.risk_highest * TrailKeepPct
DaysHeld == TradeDate(Rows, LastRow) - RiskEntryDate
HoldCond == hold_days > 0 /\ DaysHeld >= hold_days
FirstSatisfied ==
    IF StopCond THEN "stop_loss"
    ELSE IF TrailCond THEN "trailing_stop"
    ELSE IF HoldCond THEN "max_hold"
    ELSE "none"
SeveralHold ==
    \/ StopCond /\ TrailCond
    \/ StopCond /\ HoldCond
    \/ TrailCond /\ HoldCond

(* C11: with the fixed stop enabled, a position held when the stops are
   evaluated on a bar is closed with reason stop-loss exactly when that close
   is at or below entry price * (1 - 5/100), the boundary included; a risk
   exit appends exactly one record; and when several of the stop-loss,
   trailing-stop and max-hold conditions hold on one bar, the record's reason
   is the first of them in that order. *)
C11_FixedStopFirst ==
    BarDone =>
      /\ ev.risk = "stop_loss" => ev.risk_checked /\ use_stop_loss
      /\ ev.risk_checked /\ use_stop_loss =>
            (ev.risk = "stop_loss" <=>
               Close(Rows, LastRow) * 100 <= ev.risk_buy * (100 - StopLossPct))
      /\ ev.risk \in RiskReasons =>
            /\ Appended
            /\ Last(st.trades).sell_reason = ev.risk
            /\ Last(st.trades).buy_price = ev.risk_buy
      /\ ev.risk_checked /\ SeveralHold =>
            /\ ev.risk = FirstSatisfied
            /\ Appended

(* the close sits exactly on the fixed stop, the trailing-stop condition holds
   on the same bar, and the one record appended says stop-loss *)
C11_Witness ==
    /\ BarDone /\ ev.risk_checked /\ StopCond /\ TrailCond
    /\ Close(Rows, LastRow) * 100 = ev.risk_buy * (100 - StopLossPct)
    /\ ev.risk = "stop_loss" /\ Appended
    /\ Last(st.trades).sell_reason = "stop_loss"

(* the fixed stop and max-hold hold on the same bar of 底分型微信通知.py *)
StopBeforeMaxHold ==
    /\ BarDone /\ impl = "wx" /\ ev.risk_checked /\ StopCond /\ HoldCond
    /\ ev.risk = "stop_loss"

(* C12: with hold_days > 0, a bar that finds a position held for at least
   hold_days calendar days, with no stop firing, closes it at that bar's
   close with the max-hold reason, so after a completed bar no position is
   held whose days held have reached hold_days. *)
C12_MaxHoldCloses ==
    pc = "loop" /\ LastRow >= 2 /\ hold_days > 0 =>
      /\ ev.risk_checked /\ ~StopCond /\ ~TrailCond /\ HoldCond =>
            /\ ev.risk = "max_hold"
            /\ Appended
            /\ Last(st.trades).sell_price = Close(Rows, LastRow)
            /\ Last(st.trades).sell_date = TradeDate(Rows, LastRow)
      /\ ev.risk = "max_hold" => HoldCond
      /\ st.holding =>
            DaysBetween(TradeDate(Rows, LastRow), st.buy_date) < hold_days

(* 底分型微信通知.py has just closed a position by max-hold at the close *)
MaxHoldFired ==
    /\ pc = "loop" /\ impl = "wx" /\ ev.risk = "max_hold" /\ ~st.holding
    /\ Last(st.trades).sell_price = Close(Rows, LastRow)
    /\ Last(st.trades).hold_days >= hold_days

(* C13: when the backtest returns, a position still held after the last bar
   (an exit pending on that bar included) has been closed by exactly one
   record, the last one, priced at the final bar's close, dated at the final
   date, with the end-of-data reason; without a held position nothing is
   appended, so a pending entry of the last bar makes no trade; and the
   number of records equals the number of entry fills. *)
Returned == task = "backtest" /\ pc = "done" /\ ev.finished
C13_EndOfSeries ==
    Returned =>
      /\ st.holding =>
            /\ Appended
            /\ Last(st.trades).sell_reason = "end_of_data"
            /\ Last(st.trades).sell_price = Close(Rows, NRows - 1)
            /\ Last(st.trades).sell_date = TradeDate(Rows, NRows - 1)
            /\ Last(st.trades).buy_price = st.buy_price
            /\ Last(st.trades).buy_date = st.buy_date
      /\ ~st.holding => Len(st.trades) = gh.trades_before
      /\ \A n \in 1..Len(st.trades) :
            st.trades[n].sell_reason = "end_of_data" =>
               n = Len(st.trades) /\ st.holding
      /\ Len(st.trades) = gh.entry_fills

(* the last bar left a position held with a top-pattern exit pending, and the
   return closed it at the final close as end-of-data *)
C13_Witness ==
    /\ Returned /\ st.holding /\ st.pending_sell_signal
    /\ gh.sell_signal_row = NRows - 1
    /\ Last(st.trades).sell_reason = "end_of_data"
    /\ Last(st.trades).sell_price = Close(Rows, NRows - 1)
    /\ Len(st.trades) = gh.entry_fills

(* the last bar queued an entry; the return made no trade of it *)
PendingEntryAtEnd ==
    /\ Returned /\ st.pending_buy_signal /\ ~st.holding
    /\ gh.buy_signal_row = NRows - 1
    /\ Len(st.trades) = gh.entry_fills

(* C14: while a position is held, after each completed bar highest_price is
   the maximum of the entry price and the tracked price (high in 底分型.py,
   close in 底分型微信通知.py) of every bar from the entry bar through that
   bar; a fill resets it to the entry price, and within one holding it never
   decreases. *)
Tracked(k) == IF impl = "wx" THEN Close(Rows, k) ELSE High(Rows, k)
RECURSIVE MaxTracked(_, _)
MaxTracked(a, b) ==
    IF a > b THEN 0
    ELSE LET m == MaxTracked(a + 1, b)
         IN  IF Tracked(a) > m THEN Tracked(a) ELSE m
ExpectedHighest ==
    LET m == MaxTracked(RowOfDate(st.buy_date), LastRow)
    IN  IF st.buy_price > m THEN st.buy_price ELSE m

C14_HighestTracker ==
    pc = "loop" /\ LastRow >= 2 /\ st.holding =>
      /\ st.highest_price = ExpectedHighest
      /\ st.highest_price >= st.buy_price
      /\ gh.before.holding /\ ~ev.buy_fill =>
            st.highest_price >= gh.before.highest_price

(* 底分型微信通知.py holds a position over more than one bar and its tracker
   stands above the entry price *)
TrackerAboveEntry ==
    /\ pc = "loop" /\ impl = "wx" /\ st.holding /\ gh.before.holding
    /\ st.highest_price > st.buy_price
    /\ st.highest_price = ExpectedHighest

----------------------------------------------------------------------------
(* C1: the decision of step i (pending flags, scores, reasons) is the one the
   same step takes on the series cut after bar i, which agrees on bars 0..i:
   nothing get_data computed from later bars, values or column presence,
   reaches it. *)
Prefix(b, r) == SubSeq(b, 1, r + 1)

Decision(s, e) ==
    [pending_buy_signal |-> s.pending_buy_signal,
     pending_buy_reason |-> s.pending_buy_reason,
     pending_sell_signal |-> s.pending_sell_signal,
     bottom_score2 |-> e.bottom_score2,
     bottom_reason |-> e.bottom_reason,
     top_score2 |-> e.top_score2]

C1_NoLookahead ==
    BarDone =>
      LET short == Fetched(Prefix(bars, LastRow))
      IN  /\ short.loaded
          /\ LET x == LoopBody(impl, short.rows, P, gh.before, LastRow)
             IN  Decision(x.s, x.e) = Decision(st, ev)

(* C6: every score, batch or causal, is the sum of the weights 1, 1, 1, 2,
   1.5, 1.5 (doubled: 2, 2, 2, 4, 3, 3) of the satisfied factors, the reasons
   are the labels of exactly those factors in table order, and satisfying
   one more factor never lowers the score. *)
TableWeight2 == <<2, 2, 2, 4, 3, 3>>
FactorSum(c) ==
    (IF c[1] THEN TableWeight2[1] ELSE 0) + (IF c[2] THEN TableWeight2[2] ELSE 0)
    + (IF c[3] THEN TableWeight2[3] ELSE 0) + (IF c[4] THEN TableWeight2[4] ELSE 0)
    + (IF c[5] THEN TableWeight2[5] ELSE 0) + (IF c[6] THEN TableWeight2[6] ELSE 0)
BottomLabelsOf(c) ==
    (IF c[1] THEN <<BottomLabel(1)>> ELSE << >>)
    \o (IF c[2] THEN <<BottomLabel(2)>> ELSE << >>)
    \o (IF c[3] THEN <<BottomLabel(3)>> ELSE << >>)
    \o (IF c[4] THEN <<BottomLabel(4)>> ELSE << >>)
    \o (IF c[5] THEN <<BottomLabel(5)>> ELSE << >>)
    \o (IF c[6] THEN <<BottomLabel(6)>> ELSE << >>)
TopLabelsOf(c) ==
    (IF c[1] THEN <<TopLabel(1)>> ELSE << >>)
    \o (IF c[2] THEN <<TopLabel(2)>> ELSE << >>)
    \o (IF c[3] THEN <<TopLabel(3)>> ELSE << >>)
    \o (IF c[4] THEN <<TopLabel(4)>> ELSE << >>)
    \o (IF c[5] THEN <<TopLabel(5)>> ELSE << >>)
    \o (IF c[6] THEN <<TopLabel(6)>> ELSE << >>)
BottomNeverLowers(c) ==
    \A j \in 1..NFactors :
       ~c[j] => BottomAcc([c EXCEPT ![j] = TRUE], NFactors).score2
                  >= BottomAcc(c, NFactors).score2
TopNeverLowers(c) ==
    \A j \in 1..NFactors :
       ~c[j] => TopAcc([c EXCEPT ![j] = TRUE], NFactors).score2
                  >= TopAcc(c, NFactors).score2
BatchDone == task = "batch" /\ pc \in {"bottom_done", "done"}

C6_ScoreIsWeightedSum ==
    /\ BarDone /\ ev.bottom_score2 # NoScore =>
          LET c == BottomCond(Rows, LastRow - 1)
          IN  /\ ev.bottom_score2 = FactorSum(c)
              /\ ev.bottom_reason = BottomLabelsOf(c)
              /\ BottomNeverLowers(c)
    /\ BarDone /\ ev.top_score2 # NoScore =>
          LET c == TopCond(Rows, LastRow - 1)
          IN  /\ ev.top_score2 = FactorSum(c)
              /\ TopNeverLowers(c)
    /\ BatchDone =>
          /\ \A n \in 1..Len(bottom_results) :
                LET c == BottomCond(Rows, bottom_results[n].index)
                IN  /\ bottom_results[n].score2 = FactorSum(c)
                    /\ bottom_results[n].reason = BottomLabelsOf(c)
                    /\ BottomNeverLowers(c)
          /\ \A n \in 1..Len(top_results) :
                LET c == TopCond(Rows, top_results[n].index)
                IN  /\ top_results[n].score2 = FactorSum(c)
                    /\ top_results[n].reason = TopLabelsOf(c)
                    /\ TopNeverLowers(c)

(* the backtest has just scored a bottom with five factors, the weight-2 and
   a weight-1.5 factor among them: 1 + 1 + 1 + 2 + 1.5 = 6.5 *)
C6_Witness ==
    /\ BarDone /\ ev.bottom_score2 = 13
    /\ ev.bottom_reason = <<"bullish", "volume", "downtrend", "rsi_low", "bb_lower">>

(* C7: the batch detectors emit an event at index k exactly when k has both
   neighbours (1 <= k <= n-2), bar k is a strict fractal extreme and its
   score is at least 3.0 (doubled: 6), a score of exactly 3.0 included;
   events come in index order, once each. *)
EmitsBottomAt(k) == \E n \in 1..Len(bottom_results) : bottom_results[n].index = k
EmitsTopAt(k) == \E n \in 1..Len(top_results) : top_results[n].index = k
Increasing(r) == \A n \in 1..(Len(r) - 1) : r[n].index < r[n + 1].index

C7_EmissionRule ==
    /\ BatchDone =>
          /\ Increasing(bottom_results)
          /\ \A n \in 1..Len(bottom_results) :
                bottom_results[n].index \in 1..(NRows - 2)
          /\ \A k \in 0..(NRows - 1) :
                EmitsBottomAt(k) <=>
                   /\ 1 <= k /\ k <= NRows - 2
                   /\ Low(Rows, k) < Low(Rows, k - 1)
                   /\ Low(Rows, k) < Low(Rows, k + 1)
                   /\ FactorSum(BottomCond(Rows, k)) >= 6
    /\ task = "batch" /\ pc = "done" =>
          /\ Increasing(top_results)
          /\ \A n \in 1..Len(top_results) :
                top_results[n].index \in 1..(NRows - 2)
          /\ \A k \in 0..(NRows - 1) :
                EmitsTopAt(k) <=>
                   /\ 1 <= k /\ k <= NRows - 2
                   /\ High(Rows, k) > High(Rows, k - 1)
                   /\ High(Rows, k) > High(Rows, k + 1)
                   /\ FactorSum(TopCond(Rows, k)) >= 6

(* both detectors have run and the bottom detector emitted an event whose
   score is exactly 3.0 *)
C7_Witness ==
    /\ task = "batch" /\ pc = "done"
    /\ \E n \in 1..Len(bottom_results) :
          /\ bottom_results[n].score2 = 6
          /\ Len(bottom_results[n].reason) = 3

(* C8: a factor whose indicator has no value yet at the fractal index (ma10
   before row 9, RSI before row 14, Bollinger bands before row 19, MACD
   before row 25) adds no label, for bottoms and tops, batch and causal. *)
WarmUp(j, k) ==
    \/ j = 3 /\ k < MaPeriod - 1
    \/ j = 4 /\ k < RsiPeriod
    \/ j = 5 /\ k < BbPeriod - 1
    \/ j = 6 /\ k < MacdSlow - 1
Has(reason, label) == \E n \in 1..Len(reason) : reason[n] = label

C8_WarmUpFactorsSilent ==
    /\ BatchDone =>
          /\ \A n \in 1..Len(bottom_results) : \A j \in 3..NFactors :
                WarmUp(j, bottom_results[n].index) =>
                   ~Has(bottom_results[n].reason, BottomLabel(j))
          /\ \A n \in 1..Len(top_results) : \A j \in 3..NFactors :
                WarmUp(j, top_results[n].index) =>
                   ~Has(top_results[n].reason, TopLabel(j))
    /\ BarDone /\ ev.bottom_score2 # NoScore =>
          \A j \in 3..NFactors :
             WarmUp(j, LastRow - 1) => ~Has(ev.bottom_reason, BottomLabel(j))

----------------------------------------------------------------------------
(* Reading a monitor state *)

Scanned == mev.step = "scan"
Today == now.day
StoredNow(code, kind) ==
    IF kind = "bottom" THEN last_signals[code].bottom ELSE last_signals[code].top

(* C15: a pass over an instrument sends the alert of a kind only if the date
   of the most recent event differs from the date stored for that instrument
   and kind and lies at most 3 calendar days before the current date; an
   event older than that, first seen after a start or later, sends no alert;
   and nothing is sent while the notifier is not configured. *)
C15_AlertOnlyNewAndRecent ==
    /\ Scanned =>
          /\ mev.bottom.alerted =>
                /\ mev.bottom.date # NoneDate
                /\ mev.bottom.date # mev.bottom.stored_before
                /\ Today - mev.bottom.date <= 3
                /\ <<mev.code, "bottom", mev.bottom.date>> \in outbox.sent
          /\ mev.top.alerted =>
                /\ mev.top.date # NoneDate
                /\ mev.top.date # mev.top.stored_before
                /\ Today - mev.top.date <= 3
                /\ <<mev.code, "top", mev.top.date>> \in outbox.sent
          /\ mev.bottom.date # NoneDate /\ Today - mev.bottom.date > 3 =>
                ~mev.bottom.alerted
          /\ mev.top.date # NoneDate /\ Today - mev.top.date > 3 =>
                ~mev.top.alerted
    /\ ~notifier_enabled => outbox.sent = {}

(* a bottom alert has just gone out for an event exactly 3 days old that
   replaced another stored date *)
C15_Witness ==
    /\ Scanned /\ mev.bottom.alerted
    /\ Today - mev.bottom.date = 3
    /\ mev.bottom.stored_before # NoneDate
    /\ mev.bottom.stored_before # mev.bottom.date
    /\ last_signals[mev.code].bottom = mev.bottom.date

(* first cycle after the start: an event more than 3 days old is stored and
   no alert goes out *)
StaleSuppressed ==
    /\ Scanned /\ cycle = 1 /\ notifier_enabled /\ mev.kind = "none"
    /\ mev.top.date # NoneDate /\ mev.top.stored_before = NoneDate
    /\ Today - mev.top.date > 3
    /\ ~mev.top.alerted
    /\ last_signals[mev.code].top = mev.top.date

(* C16: within one run no (instrument, kind, pattern date) is alerted more
   than once, whatever the fetches return from cycle to cycle. *)
C16_AlertAtMostOnce == outbox.again = {}

(* C17: in run_multi_monitor an exception raised while one instrument is
   processed is caught by that instrument's handler: no error notification,
   control goes to the next instrument or, after the last one, to the sleep;
   a cycle that reaches its sleep after scanning has processed every
   instrument of the watch-list; and the loop is left only by an interrupt
   or by an exception outside the per-instrument handler. *)
C17_FailureIsolation ==
    impl = "wx" /\ mpc # "off" =>
      /\ Scanned /\ mev.kind = "fault" =>
            /\ mev.caught
            /\ mpc \in {"scan", "sleep"}
            /\ mpc = "scan" => Watchlist(impl)[idx] \notin mev.scanned
            /\ mpc = "sleep" => mev.scanned = Codes(impl)
      /\ Scanned /\ mpc = "sleep" => mev.scanned = Codes(impl)
      /\ mpc = "scan" =>
            mev.scanned = {Watchlist(impl)[n] : n \in 1..(idx - 1)}
      /\ mpc = "returned" /\ Scanned => mev.kind = "interrupt"

(* the first instrument raised in this cycle, the second one was still
   processed, normally, and the cycle goes to its sleep *)
C17_Witness ==
    /\ impl = "wx" /\ cycle = 1 /\ Scanned
    /\ mev.code = "STK" /\ mev.kind = "none" /\ mev.caught
    /\ mev.scanned = {"IDX", "STK"}
    /\ mpc = "sleep"

(* a later cycle scans after the handler caught an exception *)
NextCycleAfterFault ==
    /\ impl = "wx" /\ cycle >= 2 /\ mev.caught /\ mpc = "scan" /\ idx = 1

(* C18: the monitor loop is left only through an interrupt: an exception at
   the top of the loop or in the sleep, and in run_live_monitor one raised
   while the instrument is processed, is followed by the error notification
   and the sleep before the next cycle. *)
C18_OnlyInterruptEndsLoop ==
    mpc # "off" =>
      /\ mpc \in {"returned", "escaped"} => mev.kind = "interrupt"
      /\ mev.step = "fault" =>
            /\ mpc = "sleep"
            /\ notifier_enabled => outbox.errors > 0
      /\ impl = "base" /\ Scanned /\ mev.kind = "fault" =>
            /\ mpc = "sleep"
            /\ notifier_enabled => outbox.errors > 0

(* C19: an iteration of run_multi_monitor scans the watch-list exactly when
   its clock is Monday to Friday between 09:30 and 15:00 inclusive, or at
   hour 8 in minutes 0 to 9; while the clock of the current iteration is
   outside both windows no instrument is processed, no stored date changes
   and no alert goes out. *)
InSession(t) ==
    \/ /\ Weekday(t.day) \in 0..4
       /\ Minutes(t) >= 9 * 60 + 30
       /\ Minutes(t) <= 15 * 60
    \/ t.hour = 8 /\ t.minute \in 0..9

C19_SessionGating ==
    /\ [](impl = "wx" /\ mpc # "off" =>
            /\ mev.step = "tick" => (mpc = "scan" <=> InSession(now))
            /\ mev.step = "tick" /\ mpc # "scan" => mpc = "sleep"
            /\ mpc = "scan" \/ Scanned => InSession(now))
    /\ [][impl = "wx" /\ ~InSession(now') =>
            /\ last_signals' = last_signals
            /\ outbox'.sent = outbox.sent
            /\ outbox'.again = outbox.again
            /\ mev'.step # "scan"]_vars

(* after a cycle that alerted, the clock reads 15:01 on a weekday and the
   iteration goes straight to its sleep *)
C19_Witness ==
    /\ impl = "wx" /\ mev.step = "tick" /\ mpc = "sleep"
    /\ Weekday(now.day) < 5 /\ now.hour = 15 /\ now.minute = 1
    /\ outbox.sent # {}

(* the forced window on a Saturday: 08:09 scans, 08:10 does not *)
ForcedScanOnSaturday ==
    /\ impl = "wx" /\ mev.step = "tick" /\ mpc = "scan"
    /\ Weekday(now.day) = 5 /\ now.hour = 8 /\ now.minute = 9
SkippedAfterForcedWindow ==
    /\ impl = "wx" /\ mev.step = "tick" /\ mpc = "sleep"
    /\ now.hour = 8 /\ now.minute = 10

(* C20: a KeyboardInterrupt, wherever in the loop it arrives, ends the
   monitor by a return, with at most one shutdown notification, and does not
   reach the caller. *)
C20_CleanCancellation ==
    mpc # "off" =>
      /\ mev.kind = "interrupt" => mpc = "returned"
      /\ mpc # "escaped"
      /\ outbox.shutdowns <= 1
      /\ outbox.shutdowns = 1 => mpc = "returned" /\ mev.kind = "interrupt"

----------------------------------------------------------------------------
(* Reading a step of the monitor: entry n of the watch-list keeps its dates
   under its code *)
StoredOf(ls, n) == ls[watchlist[n]]
ScanStep == mpc = "scan" /\ mev'.step = "scan"

(* C21: processing one watch-list entry reads only that entry's stored dates
   and leaves the stored dates of every other entry of the list unchanged,
   two entries of the same code included; the bottom date changes only to the
   date of a new bottom event and the top date only to that of a new top
   event, neither with the other. *)
C21_WatchStateIsolation ==
    [][ScanStep =>
          /\ \A n \in 1..Len(watchlist) :
                n # idx => StoredOf(last_signals', n) = StoredOf(last_signals, n)
          /\ mev'.bottom.stored_before = StoredOf(last_signals, idx).bottom
          /\ mev'.top.stored_before = StoredOf(last_signals, idx).top
          /\ StoredOf(last_signals', idx).bottom # StoredOf(last_signals, idx).bottom
                => /\ StoredOf(last_signals', idx).bottom = mev'.bottom.date
                   /\ mev'.bottom.date # NoneDate
          /\ StoredOf(last_signals', idx).top # StoredOf(last_signals, idx).top
                => /\ StoredOf(last_signals', idx).top = mev'.top.date
                   /\ mev'.top.date # NoneDate]_vars

(* the same for a watch-list without a repeated code, where it holds *)
DistinctCodesIsolated ==
    [][ScanStep /\ Cardinality(CodesOf(watchlist)) = Len(watchlist) =>
          /\ \A c \in CodesOf(watchlist) :
                c # watchlist[idx] => last_signals'[c] = last_signals[c]
          /\ StoredOf(last_signals', idx).bottom # StoredOf(last_signals, idx).bottom
                => StoredOf(last_signals', idx).bottom = mev'.bottom.date
          /\ StoredOf(last_signals', idx).top # StoredOf(last_signals, idx).top
                => StoredOf(last_signals', idx).top = mev'.top.date]_vars

(* C27: the watch-list a cycle scans is the one the configuration holds when
   that cycle starts: after the file was edited during a sleep, the next
   cycle scans the edited list. *)
C27_WatchlistReadEachCycle == mpc = "scan" => watchlist = config

(* C30: on one day run_multi_monitor makes at most one pass over the
   watch-list outside the trading session: a cycle that scanned under the
   forced check alone is not followed, on the same day, by another cycle that
   scans under the forced check alone. *)
ForcedOnly(t) == force_check(t) /\ ~is_trading_hours(t)

C30_OneForcedPassPerDay ==
    [][impl = "wx" /\ mpc = "clock" /\ cycle >= 1 /\ mev.scanned # {}
       /\ ForcedOnly(now) /\ mpc' = "scan" /\ ForcedOnly(now')
          => now'.day # now.day]_vars

----------------------------------------------------------------------------
(* A whole run of the loop and the return, for comparing two calls on the
   same frame: the outcome is the exception or the returned value *)
RanTo(x, raised) ==
    IF raised THEN [raised |-> TRUE, result |-> Message("exception")]
    ELSE [raised |-> FALSE, result |-> x]

RECURSIVE RunFrom(_, _, _, _, _)
StepOn(im, d, p, x, i_) ==
    IF x.e.raised THEN RanTo(x.s.trades, TRUE) ELSE RunFrom(im, d, p, x.s, i_ + 1)
RunFrom(im, d, p, s, i_) ==
    IF i_ >= Len(d)
    THEN RanTo(BacktestResult(im, CloseAtEnd(im, d, s).trades), FALSE)
    ELSE StepOn(im, d, p, LoopBody(im, d, p, s, i_), i_)

Rerun(ne) ==
    RunFrom(impl, Rows, Params(use_stop_loss, use_trailing_stop, hold_days, ne),
            InitLocals(impl), 2)

BacktestOver == task = "backtest" /\ pc \in {"done", "raised"}

(* C22: on a series of at least 3 bars, short ones included, the backtest
   raises nothing and returns what the same call returns with the notifier
   switched the other way. *)
C22_NotifierNeverInfluences ==
    task = "backtest" /\ Len(bars) >= 3 =>
      /\ pc # "raised"
      /\ pc = "done" /\ ev.finished =>
            /\ ~Rerun(~notifier_enabled).raised
            /\ Rerun(~notifier_enabled).result = result

(* the two ways the notifier reaches the simulation *)
AlertTextRaised ==
    /\ task = "backtest" /\ pc = "raised" /\ ev.raised /\ notifier_enabled
    /\ ~Rerun(FALSE).raised
SilentTrailingExitRaised ==
    /\ task = "backtest" /\ pc = "raised" /\ ev.raised /\ ~notifier_enabled
    /\ impl = "base" /\ ev.risk = "trailing_stop"

----------------------------------------------------------------------------
(* C23: get_data on a fetched series of n >= 1 bars stores and returns all n
   rows, whatever n is; each of the RSI, MACD, Bollinger and ATR columns is
   there for every row or left out because n is at most 14, 26, 20 and 14. *)
C23_GetDataKeepsEveryRow ==
    pc = "ready" /\ Len(bars) >= 1 =>
      /\ data.loaded
      /\ data.rows = bars
      /\ HasRsi(data.rows) <=> Len(bars) > RsiPeriod
      /\ HasMacd(data.rows) <=> Len(bars) > MacdSlow
      /\ HasBb(data.rows) <=> Len(bars) > BbPeriod
      /\ HasAtr(data.rows) <=> Len(bars) > RsiPeriod

(* lengths at which it does: one bar, and a series long enough for every
   column *)
OneBarFetched == pc = "ready" /\ Len(bars) = 1 /\ data.loaded /\ data.rows = bars
LongSeriesFetched ==
    /\ pc = "ready" /\ Len(bars) = LongLen /\ data.loaded /\ data.rows = bars
    /\ HasRsi(data.rows) /\ HasMacd(data.rows) /\ HasBb(data.rows)

----------------------------------------------------------------------------
(* The strategy object with both stops on, the notifier on or off: the runs
   in which a repeated call is compared with the first *)
RepeatInit == Init /\ use_stop_loss /\ use_trailing_stop

RepeatSpec == RepeatInit /\ [][Next]_vars

(* C24: every call of identify_bottom_pattern or identify_top_pattern, the
   first or a later one on the same object, leaves in the stored results
   exactly the events of the frame, in place of what was stored before, and
   leaves the frame as get_data built it; a backtest run again on the frame
   the first run left, with the same parameters, returns what the first run
   returned. *)
C24_DetectorIdempotent ==
    /\ BatchDone =>
          /\ data = Fetched(bars)
          /\ bottom_results = identify_bottom_pattern(data.rows)
          /\ top_results \in {<< >>, identify_top_pattern(data.rows)}
    /\ task = "batch" /\ pc = "done" =>
          top_results = identify_top_pattern(data.rows)
    /\ task = "backtest" /\ pc = "done" /\ ev.finished =>
          /\ data = Fetched(bars)
          /\ LET again == Rerun(notifier_enabled)
             IN  ~again.raised /\ again.result = result

(* identify_bottom_pattern has run a second time, after identify_top_pattern,
   on a frame with events of both kinds *)
C24_Witness ==
    /\ task = "batch" /\ pc = "bottom_done"
    /\ top_results # << >> /\ bottom_results # << >>
    /\ bottom_results = identify_bottom_pattern(data.rows)

(* a backtest that made two trades or more has returned *)
SeveralTradesReturned ==
    /\ task = "backtest" /\ pc = "done" /\ ev.finished
    /\ result.kind = "stats" /\ result.total_trades >= 2

----------------------------------------------------------------------------
(* The end of backtest_strategy_realtime on its own: the loop is over, no
   position is held, and trades is a list of up to MaxTrades closed round
   trips, each bought at 100.00 and sold at a loss, at the buy price or at a
   gain, on the day of the buy or HoldSpan days later *)
MaxTrades == 3
HoldSpan == 2
EntryPrice == 10000
ExitPrices == {9500, 10000, 11400}

RoundTrip(n, sell_price, held) ==
    TradeRecord([buy_date |-> 3 * n, buy_price |-> EntryPrice,
                 buy_reason |-> <<"bullish">>],
                3 * n + held, sell_price, "end_of_data")

TradeLists ==
    UNION { { [n \in 1..m |-> RoundTrip(n, q[n][1], q[n][2])] :
                q \in [1..m -> ExitPrices \X {0, HoldSpan}] } : m \in 0..MaxTrades }

StatInit ==
    /\ impl \in Impls
    /\ task = "summary"
    /\ bars = << >>
    /\ use_stop_loss = TRUE /\ use_trailing_stop = TRUE
    /\ hold_days = DefaultHoldDays /\ notifier_enabled = FALSE
    /\ data = NoData
    /\ bottom_results = << >>
    /\ top_results = << >>
    /\ pc = "summary"
    /\ i = 0
    /\ \E tr \in TradeLists : st = [InitLocals(impl) EXCEPT !.trades = tr]
    /\ ev = NoEvents
    /\ gh = NoSignals
    /\ result = Message("")
    /\ MonitorOff

(* "if not trades: return ..." and the dict of statistics *)
Summarise ==
    /\ pc = "summary"
    /\ result' = BacktestResult(impl, st.trades)
    /\ pc' = "done"
    /\ UNCHANGED <<impl, task, bars, use_stop_loss, use_trailing_stop, hold_days,
                   notifier_enabled, data, bottom_results, top_results, i, st,
                   ev, gh>>
    /\ UNCHANGED monvars

StatNext == Summarise

StatSpec == StatInit /\ [][StatNext]_vars

(* C25: the figures of a returned result are those its details give:
   total_trades is the number of records, win_rate the share of records with
   profit_pct > 0 (a record with profit_pct = 0 is no win), total_profit_pct
   the sum of profit_pct, avg_profit_pct that sum over the number of records,
   max_profit_pct and max_loss_pct the largest and the smallest profit_pct,
   avg_hold_days the mean of hold_days. *)
RECURSIVE ProfitFrom(_, _)
ProfitFrom(tr, n) ==
    IF n > Len(tr) THEN RInt(0) ELSE RAdd(tr[n].profit_pct, ProfitFrom(tr, n + 1))

RECURSIVE HoldFrom(_, _)
HoldFrom(tr, n) == IF n > Len(tr) THEN 0 ELSE tr[n].hold_days + HoldFrom(tr, n + 1)

Gains(tr) == {n \in 1..Len(tr) : RLess(RInt(0), tr[n].profit_pct)}

FiguresOf(r) ==
    LET tr == r.details
        count == Len(tr)
    IN  /\ count > 0
        /\ r.total_trades = count
        /\ r.win_rate.n * count = Cardinality(Gains(tr)) * r.win_rate.d
        /\ r.total_profit_pct = ProfitFrom(tr, 1)
        /\ RScale(r.avg_profit_pct, count, 1) = r.total_profit_pct
        /\ \E n \in 1..count : tr[n].profit_pct = r.max_profit_pct
        /\ \E n \in 1..count : tr[n].profit_pct = r.max_loss_pct
        /\ \A n \in 1..count :
              /\ ~RLess(r.max_profit_pct, tr[n].profit_pct)
              /\ ~RLess(tr[n].profit_pct, r.max_loss_pct)
        /\ r.avg_hold_days.n * count = HoldFrom(tr, 1) * r.avg_hold_days.d

C25_StatisticsFromDetails ==
    (pc = "done" /\ result.kind = "stats") => FiguresOf(result)

(* a result with a win, a loss and a trade closed at its buy price *)
C25_Witness ==
    /\ pc = "done" /\ result.kind = "stats"
    /\ \E n \in 1..Len(result.details) : result.details[n].profit_pct.n = 0
    /\ \E n \in 1..Len(result.details) : result.details[n].profit_pct.n > 0
    /\ \E n \in 1..Len(result.details) : result.details[n].profit_pct.n < 0

----------------------------------------------------------------------------
(* get_data on its own, on series long enough for the smoothing of
   calculate_rsi to run past the seed: RsiLen low-priced bars, flat at 0.20
   except for the last RsiTail, drawn from LongSet *)
RsiLen == 17
RsiTail == 4

RsiSeries ==
    { Dated([k \in 1..RsiLen |->
                IF k > RsiLen - RsiTail THEN t[k - (RsiLen - RsiTail)] ELSE Flat20]) :
        t \in [1..RsiTail -> LongSet] }

RsiInit ==
    /\ impl \in Impls
    /\ task = "indicators"
    /\ bars \in RsiSeries
    /\ use_stop_loss = TRUE /\ use_trailing_stop = TRUE
    /\ hold_days = DefaultHoldDays /\ notifier_enabled = FALSE
    /\ data = NoData
    /\ bottom_results = << >>
    /\ top_results = << >>
    /\ pc = "new"
    /\ i = 0
    /\ st = InitLocals(impl)
    /\ ev = NoEvents
    /\ gh = NoSignals
    /\ result = Message("")
    /\ MonitorOff

RsiNext == get_data

RsiSpec == RsiInit /\ [][RsiNext]_vars

(* the smoothing as the claim words it: average gain and average loss seeded
   from the first RsiPeriod deltas, then (prev * (period-1) + value) / period
   with the bar's own delta *)
RECURSIVE WilderUpDown(_, _)
WilderUpDown(d, k) ==
    IF k < RsiPeriod
    THEN UpDown(SeedUp(d, 0, RsiPeriod - 1), SeedDown(d, 0, RsiPeriod - 1), RsiPeriod)
    ELSE LET prev == WilderUpDown(d, k - 1)
             delta == Close(d, k) - Close(d, k - 1)
         IN  UpDown(prev.u * (RsiPeriod - 1) + (IF delta > 0 THEN delta ELSE 0) * prev.den,
                    prev.dn * (RsiPeriod - 1) + (IF delta < 0 THEN 0 - delta ELSE 0) * prev.den,
                    prev.den * RsiPeriod)

WilderRsi(d, k) ==
    LET s == WilderUpDown(d, k)
    IN  IF s.dn = 0 THEN RInt(0) ELSE Rat(100 * s.u, s.u + s.dn)

RsiInRange(d, k) ==
    ~RLess(Rsi(d, k), RInt(0)) /\ ~RLess(RInt(100), Rsi(d, k))

(* C26: every value of the rsi column is the one the smoothing gives when it
   is seeded from exactly the first RsiPeriod deltas, each sum divided by the
   period, with relative strength 0 when the average loss is 0, and lies
   between 0 and 100. *)
C26_RsiWilderSeed ==
    (data.loaded /\ HasRsi(data.rows)) =>
        \A k \in 0..(Len(data.rows) - 1) :
            Rsi(data.rows, k) = WilderRsi(data.rows, k) /\ RsiInRange(data.rows, k)

(* the values are in range whatever the seed *)
RsiColumnInRange ==
    (data.loaded /\ HasRsi(data.rows)) =>
        \A k \in 0..(Len(data.rows) - 1) : RsiInRange(data.rows, k)

(* a frame whose delta number RsiPeriod is zero has the column the claim
   describes *)
RsiAgreesWhenNextDeltaZero ==
    (data.loaded /\ HasRsi(data.rows) /\ Delta(data.rows, RsiPeriod) = 0) =>
        \A k \in 0..(Len(data.rows) - 1) : Rsi(data.rows, k) = WilderRsi(data.rows, k)

----------------------------------------------------------------------------
(* C28: at a step i >= 2 entered FLAT with no pending entry, the step leaves
   a pending entry exactly when identify_bottom_pattern has an event at index
   i - 1, with that event's score and reasons; at a step entered HOLDING with
   no pending exit, it leaves a pending exit exactly when
   identify_top_pattern has an event at index i - 1, with that event's
   score.  The first fractal index, 1, is so evaluated at step 2. *)
EventsAt(patterns, k) == {n \in 1..Len(patterns) : patterns[n].index = k}

EnteredFlat == ~gh.before.holding /\ ~gh.before.pending_buy_signal
EnteredHolding == gh.before.holding /\ ~gh.before.pending_sell_signal

C28_BatchCausalAgree ==
    BarDone =>
      LET bottoms == identify_bottom_pattern(Rows)
          tops == identify_top_pattern(Rows)
      IN  /\ EnteredFlat =>
                /\ st.pending_buy_signal <=> EventsAt(bottoms, LastRow - 1) # {}
                /\ \A n \in EventsAt(bottoms, LastRow - 1) :
                      /\ ev.bottom_score2 = bottoms[n].score2
                      /\ st.pending_buy_reason = bottoms[n].reason
          /\ EnteredHolding =>
                /\ st.pending_sell_signal <=> EventsAt(tops, LastRow - 1) # {}
                /\ \A n \in EventsAt(tops, LastRow - 1) :
                      ev.top_score2 = tops[n].score2

(* identify_bottom_pattern has an event at index 1, step 2 was entered FLAT
   with no pending entry and has left none *)
EarliestFractalSkipped ==
    /\ BarDone /\ LastRow = 2 /\ EnteredFlat
    /\ EventsAt(identify_bottom_pattern(Rows), 1) # {}
    /\ ~st.pending_buy_signal

(* a top is detected and the stop-loss closes the position in the same step,
   so that no pending exit is left *)
TopDetectedThenStopped ==
    /\ BarDone /\ EnteredHolding
    /\ EventsAt(identify_top_pattern(Rows), LastRow - 1) # {}
    /\ ev.top_signal /\ ev.risk = "stop_loss" /\ ~st.pending_sell_signal

----------------------------------------------------------------------------
(* C29: a trade closed for the top pattern at the open of bar j was closed
   on a top signal detected at step j - 1, while that very trade was held. *)
C29_TopExitProvenance ==
    (BarDone /\ ev.sell_fill) =>
        /\ Last(st.trades).sell_reason = "top_pattern"
        /\ gh.sell_signal_row = LastRow - 1
        /\ gh.sell_signal_trade = Len(st.trades)

(* the second trade is closed on the signal detected during the first *)
LaterTradeClosedByOldSignal ==
    /\ BarDone /\ ev.sell_fill
    /\ Len(st.trades) = 2 /\ gh.sell_signal_trade = 1
    /\ gh.sell_signal_row < LastRow - 1

----------------------------------------------------------------------------
(* C31: a bar appends at most one trade; every trade ends on its entry bar or
   later, a top-pattern exit on a later bar; every trade is entered on a bar
   after the one the trade before it ended on, and at least two bars after it
   when that trade ended by a risk exit. *)
EntryRow(t) == RowOfDate(t.buy_date)
ExitRow(t) == RowOfDate(t.sell_date)

Sequential(tr) ==
    /\ \A n \in 1..Len(tr) :
          /\ ExitRow(tr[n]) >= EntryRow(tr[n])
          /\ tr[n].hold_days >= 0
          /\ tr[n].sell_reason = "top_pattern" => ExitRow(tr[n]) > EntryRow(tr[n])
    /\ \A n \in 2..Len(tr) :
          /\ EntryRow(tr[n]) > ExitRow(tr[n - 1])
          /\ tr[n - 1].sell_reason \in RiskReasons =>
                EntryRow(tr[n]) >= ExitRow(tr[n - 1]) + 2

C31_TradesSequential ==
    /\ BarDone => Len(st.trades) <= gh.trades_before + 1
    /\ (task = "backtest" /\ data.loaded) => Sequential(st.trades)

(* a second trade entered exactly two bars after the risk exit of the first *)
C31_Witness ==
    /\ task = "backtest" /\ Len(st.trades) = 2
    /\ st.trades[1].sell_reason \in RiskReasons
    /\ EntryRow(st.trades[2]) = ExitRow(st.trades[1]) + 2

(* a second trade entered on the bar after the top-pattern exit of the first *)
ReentryAfterTopExit ==
    /\ task = "backtest" /\ Len(st.trades) >= 1 /\ st.holding
    /\ Last(st.trades).sell_reason = "top_pattern"
    /\ RowOfDate(st.buy_date) = ExitRow(Last(st.trades)) + 1

----------------------------------------------------------------------------
(* C32: when the pass over an instrument in run_multi_monitor raises before
   the alert for a new and recent pattern date has gone out, the date stored
   for that kind is afterwards what it was before the pass. *)
AlertLost(check) ==
    /\ IsNew(check.date, check.stored_before)
    /\ IsRecent(Today, check.date)
    /\ notifier_enabled
    /\ ~check.alerted

C32_FailedPassKeepsState ==
    (impl = "wx" /\ Scanned /\ mev.kind = "fault") =>
        /\ AlertLost(mev.bottom) =>
              last_signals[mev.code].bottom = mev.bottom.stored_before
        /\ AlertLost(mev.top) =>
              last_signals[mev.code].top = mev.top.stored_before

(* the pass raised before anything was stored: the date is seen again *)
FailedBeforeStore ==
    /\ impl = "wx" /\ Scanned /\ mev.kind = "fault" /\ AlertLost(mev.bottom)
    /\ last_signals[mev.code].bottom = mev.bottom.stored_before

(* the pass raised between the store and the alert, and the next cycle has
   gone over the instrument again without alerting *)
AlertNeverSent ==
    /\ impl = "wx" /\ Scanned /\ mev.kind = "none" /\ cycle >= 2 /\ notifier_enabled
    /\ mev.bottom.date # NoneDate /\ IsRecent(Today, mev.bottom.date)
    /\ mev.bottom.stored_before = mev.bottom.date
    /\ <<mev.code, "bottom", mev.bottom.date>> \notin outbox.sent

----------------------------------------------------------------------------
(* run_multi_monitor with a configured check_interval of 1 to MaxInterval
   minutes, over a watch-list of one quiet instrument *)
MaxInterval == 7

PollInit ==
    /\ impl = "wx"
    /\ notifier_enabled \in BOOLEAN
    /\ task = "poll"
    /\ check_interval \in 1..MaxInterval
    /\ MonStart(<<"STK">>)

PollSpec == PollInit /\ [][MonNext]_vars

(* C33: the sleep that follows a completed scan of the watch-list lasts at
   least check_interval minutes, so that the next scan starts no earlier
   than the next check time that was logged. *)
C33_PollingInterval ==
    (impl = "wx" /\ mev.step = "sleep" /\ mev.scanned # {}) =>
        mev.slept >= check_interval * 60

(* up to the cap of five minutes the sleep is the interval *)
IntervalKeptUpToCap ==
    (impl = "wx" /\ mev.step = "sleep" /\ check_interval * 60 <= MaxSleepSeconds) =>
        mev.slept = check_interval * 60

(* a scan was followed by a sleep of five minutes under a longer interval *)
SleptLessThanInterval ==
    /\ impl = "wx" /\ mev.step = "sleep" /\ mev.scanned # {}
    /\ mev.slept = MaxSleepSeconds /\ check_interval * 60 > MaxSleepSeconds

----------------------------------------------------------------------------
(* The notifiers: ServerChanNotifier (src/底分型微信通知.py) and WeChatNotifier
   (both files, the same code).  nf holds the object's fields, the clock
   time.time() reads (seconds), and the last call: what it returned (got: a
   token, NoToken for None; sent: "True" or "False"), how many network
   requests it made, what the service replied, and the cache before it.
   Tokens are numbered in the order the service issues them. *)
MaxCalls == 3
MaxClock == 15000
ClockSteps == {100, 7000}
ExpiresIn == {300, 7200}
TokenMargin == 200
NoToken == 0

(* what the token service answers: errcode 0 with access_token and
   expires_in; errcode 0 with access_token but no expires_in; another
   errcode; or the transport raises *)
TokenReplies ==
    {[kind |-> "ok", expires_in |-> e] : e \in ExpiresIn}
    \cup {[kind |-> k, expires_in |-> 0] : k \in {"no_expiry", "error", "raise"}}

(* what the message service answers: success, an error code, or the
   transport raises *)
PostReplies == {"ok", "error", "raise"}

(* a wrong expiry without the margin: TokenCacheOnCompleteReplies fails
   against it *)
ExpiryWithoutMargin(current_time, expires_in) == current_time + expires_in

(* current_time + response_json.get("expires_in") - 200 *)
TokenExpiry(current_time, expires_in) == current_time + expires_in - TokenMargin

(* self.token and current_time < self.token_expires_time *)
CacheValid(n) == n.token # NoToken /\ n.clock < n.token_expires_time

(* get_token on the object n when the service answers r: the object after
   the call, the return value and the number of requests.  On errcode 0
   self.token is assigned first; without expires_in the next statement
   raises TypeError inside the try block and the handler returns None *)
GetToken(n, r) ==
    IF ~n.enabled THEN [n |-> n, ret |-> NoToken, requests |-> 0]
    ELSE IF CacheValid(n) THEN [n |-> n, ret |-> n.token, requests |-> 0]
    ELSE IF r.kind = "ok"
    THEN [n |-> [n EXCEPT !.token = n.issued + 1, !.issued = n.issued + 1,
                          !.token_expires_time = TokenExpiry(n.clock, r.expires_in)],
          ret |-> n.issued + 1, requests |-> 1]
    ELSE IF r.kind = "no_expiry"
    THEN [n |-> [n EXCEPT !.token = n.issued + 1, !.issued = n.issued + 1],
          ret |-> NoToken, requests |-> 1]
    ELSE [n |-> n, ret |-> NoToken, requests |-> 1]

(* a wrong handler that lets a transport error through: C34 fails against
   it *)
PostedUncaught(q) == IF q = "ok" THEN "True" ELSE IF q = "raise" THEN "raised" ELSE "False"

(* the try block around requests.post: True on code / errcode 0, False on
   another code and on any exception *)
Posted(q) == IF q = "ok" THEN "True" ELSE "False"

(* WeChatNotifier.send_notification *)
SendWeChat(n, r, q) ==
    IF ~n.enabled
    THEN [n |-> n, ret |-> "False", requests |-> 0, asked |-> FALSE, posted |-> FALSE]
    ELSE LET g == GetToken(n, r)
         IN  IF g.ret = NoToken
             THEN [n |-> g.n, ret |-> "False", requests |-> g.requests,
                   asked |-> g.requests = 1, posted |-> FALSE]
             ELSE [n |-> g.n, ret |-> Posted(q), requests |-> g.requests + 1,
                   asked |-> g.requests = 1, posted |-> TRUE]

(* ServerChanNotifier.send_notification *)
SendServerChan(n, q) ==
    IF ~n.enabled
    THEN [n |-> n, ret |-> "False", requests |-> 0, asked |-> FALSE, posted |-> FALSE]
    ELSE [n |-> n, ret |-> Posted(q), requests |-> 1, asked |-> FALSE, posted |-> TRUE]

Cache(n) == [token |-> n.token, token_expires_time |-> n.token_expires_time]

NotifierInit ==
    /\ impl \in Impls
    /\ task = "notify"
    /\ notifier_enabled \in BOOLEAN
    /\ bars = << >>
    /\ use_stop_loss = TRUE /\ use_trailing_stop = TRUE
    /\ hold_days = DefaultHoldDays
    /\ data = NoData
    /\ bottom_results = << >>
    /\ top_results = << >>
    /\ pc = "notify"
    /\ i = 0
    /\ st = InitLocals(impl)
    /\ ev = NoEvents
    /\ gh = NoSignals
    /\ result = Message("")
    /\ mpc = "off"
    /\ now = Clock(0, 0, 0)
    /\ cycle = 0
    /\ idx = 0
    /\ last_signals = [c \in {} |-> NoStored]
    /\ outbox = EmptyOutbox
    /\ mev = NoMonEvent
    /\ watchlist = << >>
    /\ config = << >>
    /\ check_interval = 0
    /\ \E c \in (IF impl = "wx" THEN {"ServerChanNotifier", "WeChatNotifier"}
                  ELSE {"WeChatNotifier"}) :
          nf = [cls |-> c, enabled |-> notifier_enabled,
                token |-> NoToken, token_expires_time |-> 0,
                clock |-> 1000, issued |-> 0, calls |-> 0,
                call |-> "none", got |-> NoToken, sent |-> "none", requests |-> 0,
                token_reply |-> "none", expires_in |-> 0, post_reply |-> "none",
                before |-> [token |-> NoToken, token_expires_time |-> 0]]

NotifierFrame ==
    /\ UNCHANGED <<impl, notifier_enabled>>
    /\ UNCHANGED stratvars
    /\ UNCHANGED <<mpc, now, cycle, idx, last_signals, outbox, mev, watchlist,
                   config, check_interval>>

(* the object after a call, with the record of the call: the replies are
   recorded only for the requests the call made *)
Called(n, after, name, got_, sent_, requests_, asked, r, posted, q) ==
    [after EXCEPT !.calls = n.calls + 1, !.call = name,
                  !.got = got_, !.sent = sent_, !.requests = requests_,
                  !.token_reply = IF asked THEN r.kind ELSE "none",
                  !.expires_in = IF asked THEN r.expires_in ELSE 0,
                  !.post_reply = IF posted THEN q ELSE "none",
                  !.before = Cache(n)]

(* time passes between two calls *)
ClockAdvance ==
    /\ nf.cls # "none" /\ nf.call # "none"
    /\ \E step \in ClockSteps :
          /\ nf.clock + step <= MaxClock
          /\ nf' = [nf EXCEPT !.clock = nf.clock + step, !.call = "none"]
    /\ NotifierFrame

get_token ==
    /\ nf.cls = "WeChatNotifier" /\ nf.calls < MaxCalls
    /\ \E r \in TokenReplies :
          LET g == GetToken(nf, r)
          IN  nf' = Called(nf, g.n, "get_token", g.ret, "none", g.requests,
                           g.requests = 1, r, FALSE, "none")
    /\ NotifierFrame

send_notification ==
    /\ nf.cls # "none" /\ nf.calls < MaxCalls
    /\ \E r \in TokenReplies : \E q \in PostReplies :
          LET g == IF nf.cls = "WeChatNotifier" THEN SendWeChat(nf, r, q)
                   ELSE SendServerChan(nf, q)
          IN  nf' = Called(nf, g.n, "send_notification", NoToken, g.ret,
                           g.requests, g.asked, r, g.posted, q)
    /\ NotifierFrame

NotifierNext == ClockAdvance \/ get_token \/ send_notification

NotifierSpec == NotifierInit /\ [][NotifierNext]_vars

----------------------------------------------------------------------------
(* C34: the notification sink is total.  After send_notification of either
   notifier the call has returned True or False (it has not raised); it
   returned True only when the message service reported success; it
   returned False when the notifier is disabled (and then made no network
   request), when no token could be obtained, when the message service
   reported an error and when the transport raised. *)
SendReturned == nf.cls # "none" /\ nf.call = "send_notification"

C34_SinkTotal ==
    SendReturned =>
        /\ nf.sent \in {"True", "False"}
        /\ nf.sent = "True" => (nf.enabled /\ nf.post_reply = "ok")
        /\ ~nf.enabled => (nf.sent = "False" /\ nf.requests = 0)
        /\ nf.token_reply \in {"no_expiry", "error", "raise"} =>
               (nf.sent = "False" /\ nf.post_reply = "none")
        /\ nf.post_reply \in {"error", "raise"} => nf.sent = "False"
        /\ (nf.enabled /\ nf.post_reply = "ok") => nf.sent = "True"

(* a WeChat notifier fetched a token, posted and got success *)
C34_Witness ==
    /\ SendReturned /\ nf.cls = "WeChatNotifier"
    /\ nf.sent = "True" /\ nf.requests = 2 /\ nf.token_reply = "ok"

(* the transport raised under a ServerChan notifier and the call returned
   False *)
TransportRaisedReturnedFalse ==
    /\ SendReturned /\ nf.cls = "ServerChanNotifier"
    /\ nf.post_reply = "raise" /\ nf.sent = "False"

(* a disabled notifier was asked to send *)
DisabledSendAsked == SendReturned /\ ~nf.enabled /\ nf.calls = 2

----------------------------------------------------------------------------
(* C36: the token cache of WeChatNotifier.  After every get_token: a
   disabled notifier returned None; a call made while a token was cached
   and the clock was before its stored expiry returned that token without
   a network request; otherwise one request was made, and on success the
   new token is stored with expiry = request time + expires_in - 200 and
   returned, while a request that failed returned None and left the cached
   token and expiry as they were. *)
TokenCalled == nf.cls = "WeChatNotifier" /\ nf.call = "get_token"

CacheHit ==
    /\ nf.enabled
    /\ nf.before.token # NoToken
    /\ nf.clock < nf.before.token_expires_time

TokenCacheWhen(replies) ==
    (TokenCalled /\ nf.token_reply \in replies) =>
        /\ ~nf.enabled =>
              (nf.got = NoToken /\ nf.requests = 0 /\ Cache(nf) = nf.before)
        /\ CacheHit =>
              (nf.got = nf.before.token /\ nf.requests = 0 /\ Cache(nf) = nf.before)
        /\ (nf.enabled /\ ~CacheHit) =>
              /\ nf.requests = 1
              /\ IF nf.got # NoToken
                 THEN /\ nf.token_reply = "ok"
                      /\ nf.token = nf.got
                      /\ nf.token # nf.before.token
                      /\ nf.token_expires_time = nf.clock + nf.expires_in - TokenMargin
                 ELSE /\ nf.token_reply # "ok"
                      /\ Cache(nf) = nf.before

C36_TokenCache == TokenCacheWhen({"none", "ok", "no_expiry", "error", "raise"})

(* the same when every errcode 0 answer carries expires_in *)
TokenCacheOnCompleteReplies == TokenCacheWhen({"none", "ok", "error", "raise"})

(* a cached token was returned without a request *)
CachedTokenReturned == TokenCalled /\ CacheHit /\ nf.got # NoToken /\ nf.requests = 0

(* the cached token had expired and a new one was requested and stored *)
ExpiredTokenReplaced ==
    /\ TokenCalled /\ nf.before.token # NoToken /\ ~CacheHit
    /\ nf.got # NoToken /\ nf.got # nf.before.token

(* get_token returned None and the cached token is another one than before *)
TokenReplacedByFailedCall ==
    TokenCalled /\ nf.got = NoToken /\ nf.token # nf.before.token

----------------------------------------------------------------------------
(* C35: order of batch events.  The list identify_bottom_pattern returns,
   and the one identify_top_pattern returns, is strictly ascending by bar
   index (and so by date); its last element, the one the live monitor reads
   as patterns[-1], is the most recent event; and no two events of one list
   sit at adjacent bar indices. *)
AscendingApart(p) ==
    \A n \in 1..(Len(p) - 1) :
        /\ p[n].index < p[n + 1].index
        /\ p[n].date < p[n + 1].date
        /\ p[n + 1].index - p[n].index >= 2

LastIsMostRecent(p) ==
    p # << >> =>
        /\ \A n \in 1..Len(p) : p[n].date <= LastPatternDate(p)
        /\ \A n \in 1..Len(p) : p[n].index <= p[Len(p)].index
        /\ LastPatternDate(p) = TradeDate(data.rows, p[Len(p)].index)

BatchReturned == task = "batch" /\ pc = "done" /\ data.loaded

C35_BatchEventOrder ==
    BatchReturned =>
        /\ AscendingApart(bottom_results) /\ LastIsMostRecent(bottom_results)
        /\ AscendingApart(top_results) /\ LastIsMostRecent(top_results)

(* two bottom events with one bar between them *)
C35_Witness ==
    /\ BatchReturned
    /\ \E n \in 1..(Len(bottom_results) - 1) :
          bottom_results[n + 1].index = bottom_results[n].index + 2

(* two top events with one bar between them *)
TopsTwoBarsApart ==
    /\ BatchReturned
    /\ \E n \in 1..(Len(top_results) - 1) :
          top_results[n + 1].index = top_results[n].index + 2

(* both lists are filled, the bottom list with several events *)
BottomsAndTopReturned ==
    BatchReturned /\ Len(bottom_results) >= 2 /\ top_results # << >>

(* several top events in one list *)
SeveralTopsReturned == BatchReturned /\ Len(top_results) >= 2

====
